---- MODULE Spec2Model ----
(***************************************************************************)
(* Model of the compatibility engine of src/lib/compatibility.ts (the      *)
(* revision that starts at line 232 of that file: calculateCompatibility   *)
(* with shared-artist evidence, weight redistribution, messages and the    *)
(* playlist side effect).                                                  *)
(*                                                                         *)
(* Numbers.  JavaScript numbers are modelled as exact fractions n/d in     *)
(* lowest terms, without the rounding of IEEE doubles; 0/0 is NaN, which   *)
(* is what intersection.size / union.size yields when the union is empty.  *)
(* Math.round is floor(x + 1/2).                                           *)
(*                                                                         *)
(* Data.  What a Spotify account returns is fixed for the length of a      *)
(* call: every fetch of the same list resolves with the same items or is   *)
(* rejected.                                                               *)
(*                                                                         *)
(* Control.  calculateCompatibility is an async function: one action per   *)
(* await point, fired when the awaited Spotify call settles (resolved or   *)
(* rejected).  createCompatibilityPlaylist calls calculateCompatibility    *)
(* again (line 584), so the calls form a stack of frames.                  *)
(*                                                                         *)
(* Specifications.  Spec is one call of calculateCompatibility; TwiceSpec  *)
(* is a second call after the first on the same accounts; ConcurrentSpec   *)
(* is two requests of POST /api/compatibility whose steps interleave at    *)
(* the awaits.  FeatureSpec, SharedSpec and MessagesSpec apply one part of *)
(* the engine on its own to arguments drawn from bounded sets: the audio   *)
(* similarity of lines 494-502, the shared artists of lines 316-345, and   *)
(* generateCompatibilityMessages.                                          *)
(* OverlapSpec and ScoreSpec do the same for the three overlap functions   *)
(* and for the weighted score of lines 359-378.  NestedSpec follows the    *)
(* nested calls one level deeper than Spec, and AllSucceedSpec is the call *)
(* in which every Spotify request resolves, under weak fairness.           *)
(*                                                                         *)
(* The site around the engine has a specification each: UserSpec is two    *)
(* GET /api/user requests on the client exported by lib/spotify,           *)
(* SessionSpec is the browser's cookies under the auth routes and the      *)
(* middleware, and ToastSpec is the ToastProvider.                         *)
(***************************************************************************)
EXTENDS Integers, Sequences, FiniteSets, TLC

\* ------------------------------------------------------------------ bounds
MaxArtists == 2      \* longest top-artist list a user has
MaxTracks  == 2      \* longest top-track list a user has
MaxDepth   == 1      \* nested calculateCompatibility calls that are followed
MaxTime    == 2      \* milliseconds of Date.now() that are followed

\* ------------------------------------------------------- JavaScript numbers
NaN == [n |-> 0, d |-> 0]

IsNaN(x) == x.d = 0

AbsInt(k) == IF k < 0 THEN -k ELSE k

RECURSIVE GCD(_, _)
GCD(a, b) == IF b = 0 THEN a ELSE GCD(b, a % b)

\* n / d of two integers; 0/0 is NaN (x/0 with x # 0 never arises here).
Rat(n, d) ==
  IF d = 0 THEN NaN
  ELSE LET g == GCD(AbsInt(n), AbsInt(d))
           s == IF d < 0 THEN -1 ELSE 1
       IN  [n |-> (s * n) \div g, d |-> (s * d) \div g]

Num(k) == [n |-> k, d |-> 1]

RAdd(x, y) == IF IsNaN(x) \/ IsNaN(y) THEN NaN
              ELSE Rat(x.n * y.d + y.n * x.d, x.d * y.d)

RSub(x, y) == IF IsNaN(x) \/ IsNaN(y) THEN NaN
              ELSE Rat(x.n * y.d - y.n * x.d, x.d * y.d)

RMul(x, y) == IF IsNaN(x) \/ IsNaN(y) THEN NaN
              ELSE Rat(x.n * y.n, x.d * y.d)

RDiv(x, y) == IF IsNaN(x) \/ IsNaN(y) THEN NaN
              ELSE Rat(x.n * y.d, x.d * y.n)

RLeq(x, y) == x.n * y.d <= y.n * x.d

\* Math.abs
MathAbs(x) == IF IsNaN(x) THEN NaN ELSE [n |-> AbsInt(x.n), d |-> x.d]

\* Math.max(a, b): NaN if either argument is NaN
MathMax(x, y) == IF IsNaN(x) \/ IsNaN(y) THEN NaN
                 ELSE IF RLeq(x, y) THEN y ELSE x

\* Math.round: nearest integer, halves towards +Infinity; NaN stays NaN
MathRound(x) == IF IsNaN(x) THEN NaN
                ELSE Num((2 * x.n + x.d) \div (2 * x.d))

\* a === b on numbers: NaN is equal to nothing, itself included
StrictEq(x, y) == ~IsNaN(x) /\ ~IsNaN(y) /\ x = y

\* ------------------------------------------------------------ sequences
SetOf(s) == {s[i] : i \in DOMAIN s}

\* new Set(xs).size
SetSize(S) == Cardinality(S)

RECURSIVE FlatMap(_, _)
FlatMap(Op(_), s) == IF s = <<>> THEN <<>> ELSE Op(Head(s)) \o FlatMap(Op, Tail(s))

RECURSIVE Filter(_, _)
Filter(Test(_), s) ==
  IF s = <<>> THEN <<>>
  ELSE IF Test(Head(s)) THEN <<Head(s)>> \o Filter(Test, Tail(s))
       ELSE Filter(Test, Tail(s))

RECURSIVE Map(_, _)
Map(Op(_), s) == IF s = <<>> THEN <<>> ELSE <<Op(Head(s))>> \o Map(Op, Tail(s))

\* arr.slice(0, k)
Slice(s, k) == IF Len(s) <= k THEN s ELSE SubSeq(s, 1, k)

\* [...new Set(arr)]: first occurrences, in order
RECURSIVE Dedupe(_)
Dedupe(s) ==
  IF s = <<>> THEN <<>>
  ELSE LET r == Dedupe(SubSeq(s, 1, Len(s) - 1))
           x == s[Len(s)]
       IN  IF x \in SetOf(r) THEN r ELSE Append(r, x)

\* ------------------------------------------------- what Spotify can return
\* The catalogue: an artist id always comes with the same name, genres and
\* images, a track id with the same uri and audio features.
\* the artists users have among their top artists, in the order the lists
\* name them
ArtistOrder == <<"a1", "a2", "a3">>

ArtistIds == {ArtistOrder[i] : i \in DOMAIN ArtistOrder}

ArtistName(id) ==
  CASE id = "a1" -> "Ada" [] id = "a2" -> "Bo" [] OTHER -> "Cy"

\* a2 is an artist Spotify lists no genres for
ArtistGenres(id) ==
  CASE id = "a1" -> <<"pop">>
    [] id = "a3" -> <<"pop", "indie">>
    [] OTHER     -> <<>>

ArtistImages(id) ==
  CASE id = "a1" -> <<[url |-> "img1"]>>
    [] id = "a3" -> <<[url |-> "img3"], [url |-> "img3s"]>>
    [] OTHER     -> <<>>

\* SpotifyApi.ArtistObjectFull, the fields the engine reads
ArtistObject(id) ==
  [id |-> id, name |-> ArtistName(id), genres |-> ArtistGenres(id),
   images |-> ArtistImages(id)]

\* the tracks users have among their top tracks, in the order the lists
\* name them
TrackOrder == <<"t1", "t2", "t3">>

TrackIds == {TrackOrder[i] : i \in DOMAIN TrackOrder}

\* `spotify:track:${id}`
TrackUri(id) == <<"spotify", "track", id>>

\* SpotifyApi.TrackObjectFull, the fields the engine reads
TrackObject(id) == [id |-> id, uri |-> TrackUri(id)]

Null == [null |-> TRUE]

\* SpotifyApi.AudioFeaturesObject of a track; t3 has none (a null entry).
\* t1 and t2 are at opposite extremes, their tempos TempoNormalization apart.
AudioFeaturesOf(id) ==
  CASE id = "t1" -> [danceability |-> Num(0), energy |-> Num(0), tempo |-> Num(50),
                     valence |-> Num(0), acousticness |-> Num(0),
                     instrumentalness |-> Num(0)]
    [] id = "t2" -> [danceability |-> Num(1), energy |-> Num(1), tempo |-> Num(250),
                     valence |-> Num(1), acousticness |-> Num(1),
                     instrumentalness |-> Num(1)]
    [] OTHER     -> Null

\* getArtistTopTracks(artist.id, country).body.tracks
ArtistTopTracks(id) ==
  CASE id = "a1" -> <<TrackObject("t1"), TrackObject("t9")>>
    [] id = "a3" -> <<TrackObject("t2")>>
    [] OTHER     -> <<>>

\* the members of s at the positions in S, from position i on
RECURSIVE SubAt(_, _, _)
SubAt(s, S, i) ==
  IF i > Len(s) THEN <<>>
  ELSE (IF i \in S THEN <<s[i]>> ELSE <<>>) \o SubAt(s, S, i + 1)

\* top-artist lists: up to MaxArtists artists, in the order of ArtistOrder
ArtistLists ==
  {Map(ArtistObject, SubAt(ArtistOrder, S, 1)) :
     S \in {T \in SUBSET DOMAIN ArtistOrder : Cardinality(T) <= MaxArtists}}

\* top-track lists: up to MaxTracks tracks, in the order of TrackOrder
TrackLists ==
  {Map(TrackObject, SubAt(TrackOrder, S, 1)) :
     S \in {T \in SUBSET DOMAIN TrackOrder : Cardinality(T) <= MaxTracks}}

\* ----------------------------------------------------------- pure functions
IdOf(x) == x.id
GenresOf(artist) == artist.genres

\* the ratio with the size of the first set as divisor
JaccardRatio_OverFirst(set1, set2) ==
  LET intersection == {x \in set1 : x \in set2}
  IN  Rat(SetSize(intersection), SetSize(set1))

\* the ratio with the two sizes added up as the size of the union
JaccardRatio_SizesAdded(set1, set2) ==
  LET intersection == {x \in set1 : x \in set2}
  IN  Rat(SetSize(intersection), SetSize(set1) + SetSize(set2))

\* the ratio with the filter of the intersection negated
JaccardRatio_FilterNegated(set1, set2) ==
  LET intersection == {x \in set1 : x \notin set2}
      union        == set1 \cup set2
  IN  Rat(SetSize(intersection), SetSize(union))

\* intersection.size / union.size of two Sets, as lines 415-418 compute it
JaccardRatio(set1, set2) ==
  LET intersection == {x \in set1 : x \in set2}
      union        == set1 \cup set2
  IN  Rat(SetSize(intersection), SetSize(union))

\* the same ratio counted on the lists, not on Sets of their ids: every
\* repeated artist counts again
calculateArtistOverlap_ListLengths(artists1, artists2) ==
  LET InSecond(a) == \E j \in DOMAIN artists2 : artists2[j].id = a.id
      intersection == Len(Filter(InSecond, artists1))
  IN  Rat(intersection, Len(artists1) + Len(artists2) - intersection)

calculateArtistOverlap(artists1, artists2) ==
  LET set1 == SetOf(Map(IdOf, artists1))
      set2 == SetOf(Map(IdOf, artists2))
  IN  JaccardRatio(set1, set2)

calculateGenreOverlap(artists1, artists2) ==
  LET genres1 == SetOf(FlatMap(GenresOf, artists1))
      genres2 == SetOf(FlatMap(GenresOf, artists2))
  IN  JaccardRatio(genres1, genres2)

calculateTrackOverlap(tracks1, tracks2) ==
  LET set1 == SetOf(Map(IdOf, tracks1))
      set2 == SetOf(Map(IdOf, tracks2))
  IN  JaccardRatio(set1, set2)

FeatureNames == {"danceability", "energy", "tempo", "valence", "acousticness",
                 "instrumentalness"}

RECURSIVE SumFeature(_, _)
SumFeature(features, k) ==
  IF features = <<>> THEN Num(0)
  ELSE RAdd(SumFeature(SubSeq(features, 1, Len(features) - 1), k),
            features[Len(features)][k])

\* the first vector taken for the average of them all
calculateAverageFeatures_First(features) ==
  [k \in FeatureNames |-> features[1][k]]

calculateAverageFeatures(features) ==
  LET count == IF Len(features) # 0 THEN Len(features) ELSE 1
  IN  [k \in FeatureNames |-> RDiv(SumFeature(features, k), Num(count))]

RECURSIVE SumSeq(_)
SumSeq(s) == IF s = <<>> THEN Num(0)
             ELSE RAdd(SumSeq(SubSeq(s, 1, Len(s) - 1)), s[Len(s)])

TempoNormalization == 200

\* the mean difference returned as it is, not taken from 1
calculateFeatureSimilarity_Distance(features1, features2) ==
  LET diffs == << MathAbs(RSub(features1.danceability, features2.danceability)),
                  MathAbs(RSub(features1.energy, features2.energy)),
                  MathAbs(RSub(features1.valence, features2.valence)),
                  MathAbs(RSub(features1.acousticness, features2.acousticness)),
                  MathAbs(RSub(features1.instrumentalness, features2.instrumentalness)) >>
      normalizedTempoDiff ==
        RDiv(MathAbs(RSub(features1.tempo, features2.tempo)), Num(TempoNormalization))
      all == Append(diffs, normalizedTempoDiff)
  IN  MathMax(Num(0), RDiv(SumSeq(all), Num(Len(all))))

\* the similarity without the Math.max(0, ...) of line 522
calculateFeatureSimilarity_NoClamp(features1, features2) ==
  LET diffs == << MathAbs(RSub(features1.danceability, features2.danceability)),
                  MathAbs(RSub(features1.energy, features2.energy)),
                  MathAbs(RSub(features1.valence, features2.valence)),
                  MathAbs(RSub(features1.acousticness, features2.acousticness)),
                  MathAbs(RSub(features1.instrumentalness, features2.instrumentalness)) >>
      normalizedTempoDiff ==
        RDiv(MathAbs(RSub(features1.tempo, features2.tempo)), Num(TempoNormalization))
      all == Append(diffs, normalizedTempoDiff)
  IN  RSub(Num(1), RDiv(SumSeq(all), Num(Len(all))))

calculateFeatureSimilarity(features1, features2) ==
  LET diffs == << MathAbs(RSub(features1.danceability, features2.danceability)),
                  MathAbs(RSub(features1.energy, features2.energy)),
                  MathAbs(RSub(features1.valence, features2.valence)),
                  MathAbs(RSub(features1.acousticness, features2.acousticness)),
                  MathAbs(RSub(features1.instrumentalness, features2.instrumentalness)) >>
      normalizedTempoDiff ==
        RDiv(MathAbs(RSub(features1.tempo, features2.tempo)), Num(TempoNormalization))
      all == Append(diffs, normalizedTempoDiff)
      similarity == RSub(Num(1), RDiv(SumSeq(all), Num(Len(all))))
  IN  MathMax(Num(0), similarity)

\* getAudioFeaturesForTracks(ids).body.audio_features: one entry per id,
\* null for a track without features
AudioFeaturesResponse(trackIds) == Map(AudioFeaturesOf, trackIds)

NotNull(f) == f # Null

\* lines 494-502 without the guard of line 497
AudioSimilarityOf_NoGuard(features1Res, features2Res) ==
  LET features1 == Filter(NotNull, features1Res)
      features2 == Filter(NotNull, features2Res)
  IN  calculateFeatureSimilarity(calculateAverageFeatures(features1),
                                 calculateAverageFeatures(features2))

\* The part of calculateAudioFeaturesSimilarity after the fetch resolved
\* (lines 494-502).
AudioSimilarityOf(features1Res, features2Res) ==
  LET features1 == Filter(NotNull, features1Res)
      features2 == Filter(NotNull, features2Res)
  IN  IF Len(features1) = 0 \/ Len(features2) = 0 THEN Num(0)
      ELSE calculateFeatureSimilarity(calculateAverageFeatures(features1),
                                      calculateAverageFeatures(features2))

\* score >= k in JavaScript: false when score is NaN
ScoreAtLeast(score, k) == ~IsNaN(score) /\ RLeq(Num(k), score)

NameOf(a) == a.name

\* the messages with the headline chosen by the bands score >= 70, >= 40 and
\* below, as in the revision of src/unnamed/part_000 (line 356)
generateCompatibilityMessages_Bands7040(score, sharedArtists) ==
  LET overall ==
        IF ScoreAtLeast(score, 70) THEN "musical soulmates"
        ELSE IF ScoreAtLeast(score, 40) THEN "decent compatibility"
        ELSE "quite different"
      artistMessage ==
        IF Len(sharedArtists.exact) > 0
        THEN << "You both love", Map(NameOf, Slice(sharedArtists.exact, 3)),
                IF Len(sharedArtists.exact) > 3
                THEN Len(sharedArtists.exact) - 3 ELSE 0 >>
        ELSE IF Len(sharedArtists.similar) > 0
        THEN LET firstSimilar == sharedArtists.similar[1]
             IN  << "you both like artists in the genre", firstSimilar.sharedGenres[1],
                    firstSimilar.user1Artist.name, firstSimilar.user2Artist.name >>
        ELSE << "not many overlapping top artists" >>
      genreMessage ==
        IF ScoreAtLeast(score, 70) THEN "strong match"
        ELSE IF ScoreAtLeast(score, 50) THEN "solid genre overlap"
        ELSE "a bit different"
  IN  [overall |-> overall, artistMessage |-> artistMessage,
       genreMessage |-> genreMessage, playlistMessage |-> "Compatibility Mix"]

generateCompatibilityMessages(score, sharedArtists) ==
  LET overall ==
        IF ScoreAtLeast(score, 80) THEN "musical soulmates"
        ELSE IF ScoreAtLeast(score, 60) THEN "great compatibility"
        ELSE IF ScoreAtLeast(score, 40) THEN "decent compatibility"
        ELSE "quite different"
      artistMessage ==
        IF Len(sharedArtists.exact) > 0
        THEN << "You both love", Map(NameOf, Slice(sharedArtists.exact, 3)),
                IF Len(sharedArtists.exact) > 3
                THEN Len(sharedArtists.exact) - 3 ELSE 0 >>
        ELSE IF Len(sharedArtists.similar) > 0
        THEN LET firstSimilar == sharedArtists.similar[1]
             IN  << "you both like artists in the genre", firstSimilar.sharedGenres[1],
                    firstSimilar.user1Artist.name, firstSimilar.user2Artist.name >>
        ELSE << "not many overlapping top artists" >>
      genreMessage ==
        IF ScoreAtLeast(score, 70) THEN "strong match"
        ELSE IF ScoreAtLeast(score, 50) THEN "solid genre overlap"
        ELSE "a bit different"
  IN  [overall |-> overall, artistMessage |-> artistMessage,
       genreMessage |-> genreMessage, playlistMessage |-> "Compatibility Mix"]

Undefined == "undefined"

\* the undefined createCompatibilityPlaylist returns instead of a playlist id
\* (line 627); the ids of playlists count from 1
NoPlaylist == 0

\* artist.images?.[0]?.url
FirstImageUrl(artist) == IF Len(artist.images) > 0 THEN artist.images[1].url ELSE Undefined

\* the shared artists collected from user1's list, not from user2's
ExactShared_FromUser1(artists1, artists2) ==
  LET user2ArtistIds == SetOf(Map(IdOf, artists2))
      Has(artist)    == artist.id \in user2ArtistIds
      Entry(artist)  == [name |-> artist.name, id |-> artist.id,
                         image |-> FirstImageUrl(artist)]
  IN  Map(Entry, Filter(Has, artists1))

\* lines 321-330: the artists of user2 whose id is in user1's id set
ExactShared(artists1, artists2) ==
  LET user1ArtistIds == SetOf(Map(IdOf, artists1))
      Has(artist)    == artist.id \in user1ArtistIds
      Entry(artist)  == [name |-> artist.name, id |-> artist.id,
                         image |-> FirstImageUrl(artist)]
  IN  Map(Entry, Filter(Has, artists2))

\* the pairs with a common genre, without the test of line 334
RECURSIVE SimilarRow_SameIdKept(_, _)
SimilarRow_SameIdKept(artist1, artists2) ==
  IF artists2 = <<>> THEN <<>>
  ELSE LET artist2 == Head(artists2)
           InArtist2(g) == g \in SetOf(artist2.genres)
           sharedGenres == Filter(InArtist2, artist1.genres)
           rest == SimilarRow_SameIdKept(artist1, Tail(artists2))
       IN  IF Len(sharedGenres) > 0
           THEN << [user1Artist |-> [name |-> artist1.name, genres |-> artist1.genres],
                    user2Artist |-> [name |-> artist2.name, genres |-> artist2.genres],
                    sharedGenres |-> sharedGenres] >> \o rest
           ELSE rest

\* lines 332-345: the pairs with different ids and a common genre
RECURSIVE SimilarRow(_, _)
SimilarRow(artist1, artists2) ==
  IF artists2 = <<>> THEN <<>>
  ELSE LET artist2 == Head(artists2)
           InArtist2(g) == g \in SetOf(artist2.genres)
           sharedGenres == Filter(InArtist2, artist1.genres)
           rest == SimilarRow(artist1, Tail(artists2))
       IN  IF artist1.id # artist2.id /\ Len(sharedGenres) > 0
           THEN << [user1Artist |-> [name |-> artist1.name, genres |-> artist1.genres],
                    user2Artist |-> [name |-> artist2.name, genres |-> artist2.genres],
                    sharedGenres |-> sharedGenres] >> \o rest
           ELSE rest

RECURSIVE SimilarShared(_, _)
SimilarShared(artists1, artists2) ==
  IF artists1 = <<>> THEN <<>>
  ELSE SimilarRow(Head(artists1), artists2) \o SimilarShared(Tail(artists1), artists2)

\* lines 359-371
DefaultWeights == [artists |-> 30, genres |-> 30, tracks |-> 20, audioFeatures |-> 20]

RedistributedWeights == [artists |-> 35, genres |-> 35, tracks |-> 30, audioFeatures |-> 0]

\* the weights without the redistribution of lines 366-371
WeightsFor_NoRedistribution(audioFeaturesScore) == DefaultWeights

\* the redistribution applied to every similarity up to 1/10, not to 0 alone
WeightsFor_UpToTenth(audioFeaturesScore) ==
  IF RLeq(audioFeaturesScore, Rat(1, 10)) THEN RedistributedWeights ELSE DefaultWeights

WeightsFor(audioFeaturesScore) ==
  IF StrictEq(audioFeaturesScore, Num(0)) THEN RedistributedWeights ELSE DefaultWeights

\* a weight written in the source as a decimal fraction, here in hundredths
Weight(w) == Rat(w, 100)

\* the score with the audio term left out of the sum
FinalScore_NoAudioTerm(artistOverlap, genreOverlap, trackOverlap, audioFeaturesScore, weights) ==
  MathRound(RMul(RAdd(RAdd(RMul(artistOverlap, Weight(weights.artists)),
                           RMul(genreOverlap, Weight(weights.genres))),
                      RMul(trackOverlap, Weight(weights.tracks))),
                 Num(100)))

\* lines 373-378
FinalScore(artistOverlap, genreOverlap, trackOverlap, audioFeaturesScore, weights) ==
  MathRound(RMul(RAdd(RAdd(RAdd(RMul(artistOverlap, Weight(weights.artists)),
                                RMul(genreOverlap, Weight(weights.genres))),
                           RMul(trackOverlap, Weight(weights.tracks))),
                      RMul(audioFeaturesScore, Weight(weights.audioFeatures))),
                 Num(100)))

\* ------------------------------------------------------------------- state
VARIABLES
  spotify1,    \* the account behind the first client: what its calls return
  spotify2,    \* the account behind the second client
  stack,       \* activations of calculateCompatibility, outermost first
  outcome,     \* of the outermost call: "pending", "returned" or "thrown"
  result,      \* the CompatibilityResult the outermost call returned
  error,       \* the message of the Error the outermost call threw
  playlists,   \* the playlists created on Spotify, in order of creation
  arg,         \* the arguments of the calls of a function applied on its own
  ret,         \* what those calls returned, in the order of the calls
  previous,    \* how an earlier call of calculateCompatibility ended
  asked,       \* the two access tokens of the request being served, as the
               \* accounts they belong to
  other,       \* a second request in the same process, waiting at an await
  spotifyApi,  \* the credentials of the client exported by lib/spotify
  handlers,    \* the GET /api/user requests being served
  cookies,     \* the browser's spotify_access_token and spotify_refresh_token
  session,     \* whether the user logged out, and the middleware's last answer
  toasts,      \* the toasts of the ToastProvider, oldest first
  shownToasts, \* shownToastsRef.current: the keys of the toasts shown so far
  now          \* Date.now(), in milliseconds

vars == <<spotify1, spotify2, stack, outcome, result, error, playlists, arg, ret,
          previous, asked, other, spotifyApi, handlers, cookies, session, toasts,
          shownToasts, now>>

\* the routes, the middleware and the toasts
site == <<spotifyApi, handlers, cookies, session, toasts, shownToasts, now>>

\* what the steps of calculateCompatibility leave alone
harness == <<arg, ret, previous, asked, other, site>>

NoToken == "none"

NoVisit == [none |-> TRUE]

\* no GET /api/user request is being served
NoHandlers == spotifyApi = [accessToken |-> NoToken] /\ handlers = <<>>

\* the browser holds no cookie and asked for nothing
NoSession ==
  /\ cookies = [spotify_access_token |-> NoToken, spotify_refresh_token |-> NoToken]
  /\ session = [loggedOut |-> FALSE, last |-> NoVisit]

\* no toast was shown
NoToasts == toasts = <<>> /\ shownToasts = {} /\ now = 0

\* no route is requested and no toast is shown
NoSite == NoHandlers /\ NoSession /\ NoToasts

NoRequest == [none |-> TRUE]

\* calculateCompatibility is called outside a request, and no request waits
NoRequests == asked = NoRequest /\ other = NoRequest

NoPrevious == [none |-> TRUE]

\* no function is applied on its own
NoCalls == arg = <<>> /\ ret = <<>>

NoResult == [none |-> TRUE]

NoError == "none"

AudioBatchSize == 100

MaxSharedTrackUris == 20

MaxPlaylistFill == 30

MaxPlaylistTracks == 50

MaxSharedArtistsUsed == 5

\* the locals of one activation of calculateCompatibility, and of the
\* createCompatibilityPlaylist it calls
NewFrame ==
  [pc |-> "topArtists",
   user1Artists |-> <<>>, user2Artists |-> <<>>,
   user1Tracks |-> <<>>, user2Tracks |-> <<>>,
   artistOverlap |-> Num(0), genreOverlap |-> Num(0), trackOverlap |-> Num(0),
   sharedArtists |-> [exact |-> <<>>, similar |-> <<>>],
   audioFetch |-> "none",
   audioFeaturesScore |-> Num(0),
   weights |-> DefaultWeights,
   finalScore |-> Num(0),
   messages |-> <<>>,
   descriptionScore |-> Num(0),
   playlistId |-> NoPlaylist,
   trackUris |-> <<>>,
   shuffled |-> {}]

Accounts == [topArtists : ArtistLists, topTracks : TrackLists,
             display_name : {"user"}]

Init ==
  /\ spotify1 \in Accounts
  /\ spotify2 \in Accounts
  /\ stack = <<NewFrame>>
  /\ outcome = "pending"
  /\ result = NoResult
  /\ error = NoError
  /\ playlists = <<>>
  /\ NoCalls
  /\ previous = NoPrevious
  /\ NoSite
  /\ NoRequests

Running == outcome = "pending"

top == stack[Len(stack)]

At(label) == Running /\ top.pc = label

\* lines 390-401
ResultOf(f, playlistId) ==
  [score |-> f.finalScore,
   metrics |-> [artistOverlap |-> f.artistOverlap, genreOverlap |-> f.genreOverlap,
                trackOverlap |-> f.trackOverlap,
                audioFeaturesScore |-> f.audioFeaturesScore],
   sharedArtists |-> f.sharedArtists,
   playlistId |-> playlistId,
   messages |-> f.messages]

\* The innermost activation of stk returns.  The outermost call hands its
\* result to the caller; a nested one resumes its caller at line 584, which
\* puts the score into the playlist description and goes on to createPlaylist.
Return(stk, f, playlistId) ==
  LET r == ResultOf(f, playlistId)
      k == Len(stk)
  IN  IF k = 1
      THEN /\ stack' = <<[f EXCEPT !.pc = "returned", !.playlistId = playlistId]>>
           /\ outcome' = "returned"
           /\ result' = r
           /\ error' = error
      ELSE /\ stack' = [SubSeq(stk, 1, k - 1) EXCEPT
                          ![k - 1].pc = "createPlaylist",
                          ![k - 1].descriptionScore = r.score]
           /\ UNCHANGED <<outcome, result, error>>

\* a throw that no caller catches: the outermost call rejects
Throw_Uncaught(message) ==
  /\ stack' = stack
  /\ outcome' = "thrown"
  /\ error' = message
  /\ result' = result

\* The innermost activation throws (lines 289, 298, rethrown at 404).  The
\* outermost call rejects; a nested one is inside the try of its caller's
\* createCompatibilityPlaylist, whose catch (line 625) returns undefined, so
\* the caller returns its result without a playlist.
Throw(message) ==
  LET k == Len(stack)
  IN  IF k = 1
      THEN /\ stack' = stack
           /\ outcome' = "thrown"
           /\ error' = message
           /\ result' = result
      ELSE Return(SubSeq(stack, 1, k - 1), stack[k - 1], NoPlaylist)

SetTop(f) == stack' = [stack EXCEPT ![Len(stack)] = f]

\* lines 359-380, once audioFeaturesScore is known; the activation then
\* enters createCompatibilityPlaylist and awaits getMe (line 580)
Scored(f, audioFeaturesScore, audioFetch) ==
  LET weights == WeightsFor(audioFeaturesScore)
      finalScore == FinalScore(f.artistOverlap, f.genreOverlap, f.trackOverlap,
                               audioFeaturesScore, weights)
  IN  [f EXCEPT !.audioFetch = audioFetch,
                !.audioFeaturesScore = audioFeaturesScore,
                !.weights = weights,
                !.finalScore = finalScore,
                !.messages = generateCompatibilityMessages(finalScore, f.sharedArtists),
                !.pc = "getMe1"]

\* await Promise.all([getMyTopArtists, getMyTopArtists]), lines 283-290
TopArtists(ok) ==
  /\ At("topArtists")
  /\ IF ok
     THEN /\ SetTop([top EXCEPT !.user1Artists = spotify1.topArtists,
                                !.user2Artists = spotify2.topArtists,
                                !.pc = "topTracks"])
          /\ UNCHANGED <<outcome, result, error>>
     ELSE Throw("Failed to fetch top artists")
  /\ UNCHANGED <<spotify1, spotify2, playlists>>
  /\ UNCHANGED harness

\* await Promise.all([getMyTopTracks, getMyTopTracks]), lines 292-354 and
\* 487: overlaps and shared artists are computed, then
\* calculateAudioFeaturesSimilarity either returns 0 at once (an empty id
\* list) or awaits the audio features
TopTracks(ok) ==
  /\ At("topTracks")
  /\ IF ok
     THEN LET user1Tracks == spotify1.topTracks
              user2Tracks == spotify2.topTracks
              f == [top EXCEPT
                      !.user1Tracks = user1Tracks,
                      !.user2Tracks = user2Tracks,
                      !.artistOverlap = calculateArtistOverlap(top.user1Artists, top.user2Artists),
                      !.genreOverlap = calculateGenreOverlap(top.user1Artists, top.user2Artists),
                      !.trackOverlap = calculateTrackOverlap(user1Tracks, user2Tracks),
                      !.sharedArtists =
                          [exact |-> ExactShared(top.user1Artists, top.user2Artists),
                           similar |-> SimilarShared(top.user1Artists, top.user2Artists)]]
              trackIds1 == Map(IdOf, user1Tracks)
              trackIds2 == Map(IdOf, user2Tracks)
          IN  /\ IF Len(trackIds1) = 0 \/ Len(trackIds2) = 0
                 THEN SetTop(Scored(f, Num(0), "skipped"))
                 ELSE SetTop([f EXCEPT !.pc = "audioFeatures"])
              /\ UNCHANGED <<outcome, result, error>>
     ELSE Throw("Failed to fetch top tracks")
  /\ UNCHANGED <<spotify1, spotify2, playlists>>
  /\ UNCHANGED harness

\* the same step with the overall message picked among three texts by
\* Math.random, as the revision of src/unnamed/part_000 picks it (line 357)
calculateAudioFeaturesSimilarity_RandomHeadline(ok) ==
  /\ At("audioFeatures")
  /\ \E randomIndex \in 0..2 :
       LET trackIds1 == Map(IdOf, top.user1Tracks)
           trackIds2 == Map(IdOf, top.user2Tracks)
           g == IF ok
                THEN Scored(top,
                       AudioSimilarityOf(AudioFeaturesResponse(Slice(trackIds1, AudioBatchSize)),
                                         AudioFeaturesResponse(Slice(trackIds2, AudioBatchSize))),
                       "resolved")
                ELSE Scored(top, Num(0), "rejected")
       IN  SetTop([g EXCEPT !.messages.overall = <<g.messages.overall, randomIndex>>])
  /\ UNCHANGED <<spotify1, spotify2, outcome, result, error, playlists>>
  /\ UNCHANGED harness

\* the same step with the weights redistributed only when no similarity
\* could be measured (rejection, or no usable features), not whenever the
\* value is 0: a measured 0 keeps the default weights
calculateAudioFeaturesSimilarity_FlaggedRedistribution(ok) ==
  /\ At("audioFeatures")
  /\ LET features1 == AudioFeaturesResponse(Slice(Map(IdOf, top.user1Tracks), AudioBatchSize))
         features2 == AudioFeaturesResponse(Slice(Map(IdOf, top.user2Tracks), AudioBatchSize))
         measured == /\ ok
                     /\ Filter(NotNull, features1) # <<>>
                     /\ Filter(NotNull, features2) # <<>>
         g == IF ok
              THEN Scored(top, AudioSimilarityOf(features1, features2), "resolved")
              ELSE Scored(top, Num(0), "rejected")
         finalScore == FinalScore(g.artistOverlap, g.genreOverlap, g.trackOverlap,
                                  g.audioFeaturesScore, DefaultWeights)
     IN  IF measured
         THEN SetTop([g EXCEPT !.weights = DefaultWeights,
                               !.finalScore = finalScore,
                               !.messages = generateCompatibilityMessages(finalScore,
                                                                          g.sharedArtists)])
         ELSE SetTop(g)
  /\ UNCHANGED <<spotify1, spotify2, outcome, result, error, playlists>>
  /\ UNCHANGED harness

\* await Promise.all([getAudioFeaturesForTracks, getAudioFeaturesForTracks]),
\* lines 489-506; a rejection is caught and gives 0
calculateAudioFeaturesSimilarity(ok) ==
  /\ At("audioFeatures")
  /\ LET trackIds1 == Map(IdOf, top.user1Tracks)
         trackIds2 == Map(IdOf, top.user2Tracks)
     IN  IF ok
         THEN SetTop(Scored(top,
                AudioSimilarityOf(AudioFeaturesResponse(Slice(trackIds1, AudioBatchSize)),
                                  AudioFeaturesResponse(Slice(trackIds2, AudioBatchSize))),
                "resolved"))
         ELSE SetTop(Scored(top, Num(0), "rejected"))
  /\ UNCHANGED <<spotify1, spotify2, outcome, result, error, playlists>>
  /\ UNCHANGED harness

\* const user1 = await spotify1.getMe(), line 580
GetMe1(ok) ==
  /\ At("getMe1")
  /\ IF ok
     THEN /\ SetTop([top EXCEPT !.pc = "getMe2"])
          /\ UNCHANGED <<outcome, result, error>>
     ELSE Return(stack, top, NoPlaylist)
  /\ UNCHANGED <<spotify1, spotify2, playlists>>
  /\ UNCHANGED harness

\* const user2 = await spotify2.getMe(), line 581; when it resolves the
\* description is built, which calls calculateCompatibility again (line 584).
\* Nested calls are followed MaxDepth deep; in the deepest one only the
\* rejection of getMe is followed.
GetMe2(ok) ==
  /\ At("getMe2")
  /\ IF ok
     THEN /\ Len(stack) <= MaxDepth
          /\ stack' = Append([stack EXCEPT ![Len(stack)].pc = "nested"], NewFrame)
          /\ UNCHANGED <<outcome, result, error>>
     ELSE Return(stack, top, NoPlaylist)
  /\ UNCHANGED <<spotify1, spotify2, playlists>>
  /\ UNCHANGED harness

UriOf(t) == t.uri

\* lines 591-596: the uris of the tracks both users have, at most 20
SharedTrackUris(user1Tracks, user2Tracks) ==
  LET InUser2(t1) == \E i \in DOMAIN user2Tracks : user2Tracks[i].id = t1.id
      sharedTrackIds == Dedupe(Map(IdOf, Filter(InUser2, user1Tracks)))
  IN  Slice(Map(TrackUri, sharedTrackIds), MaxSharedTrackUris)

\* lines 599-607: the top tracks of the first five shared artists, fetched
\* through both clients, without the uris already chosen
WithArtistTracks(trackUris, exact) ==
  LET NotChosen(uri) == uri \notin SetOf(trackUris)
      PerArtist(artist) ==
        Filter(NotChosen,
               Map(UriOf, ArtistTopTracks(artist.id) \o ArtistTopTracks(artist.id)))
      artistTracks == FlatMap(PerArtist, Slice(exact, MaxSharedArtistsUsed))
  IN  trackUris \o Slice(Dedupe(artistTracks), MaxPlaylistFill - Len(trackUris))

\* lines 610-614: the uris of [...user1Tracks, ...user2Tracks] that are not
\* chosen yet
LeftoverUris(f, trackUris) ==
  {uri \in SetOf(Map(UriOf, f.user1Tracks \o f.user2Tracks)) : uri \notin SetOf(trackUris)}

Min(a, b) == IF a <= b THEN a ELSE b

\* the same with user1Tracks sorted in place by the random comparator, not a
\* copy of it: the list is left in another order (here the reverse)
FillAndAdd_SortInPlace(f, playlistId, chosen) ==
  LET leftover == LeftoverUris(f, chosen)
      room == IF Len(chosen) < MaxPlaylistFill THEN MaxPlaylistFill - Len(chosen) ELSE 0
      sorted == [i \in DOMAIN f.user1Tracks |->
                   f.user1Tracks[Len(f.user1Tracks) + 1 - i]]
  IN  \E shuffled \in {T \in SUBSET leftover :
                         Cardinality(T) = Min(Cardinality(leftover), room)} :
        LET trackUris == Slice(Dedupe(chosen), MaxPlaylistTracks)
            g == [f EXCEPT !.trackUris = trackUris, !.shuffled = shuffled,
                           !.playlistId = playlistId,
                           !.user1Tracks = IF Len(chosen) < MaxPlaylistFill
                                           THEN sorted ELSE @]
        IN  IF Len(trackUris) + Cardinality(shuffled) > 0
            THEN /\ SetTop([g EXCEPT !.pc = "addTracks"])
                 /\ UNCHANGED <<outcome, result, error>>
            ELSE Return(stack, g, playlistId)

\* lines 610-628 for the innermost activation f, whose playlist exists;
\* chosen holds the shared and the artist tracks.  The remaining top tracks
\* are appended in the order a sort with a random comparator leaves them in
\* (line 612), cut to what fills the playlist up to MaxPlaylistFill: which of
\* them are kept is a free choice, and their order is not kept, they are the
\* set `shuffled`.  The cut to MaxPlaylistTracks (line 618) then keeps them all.
FillAndAdd(f, playlistId, chosen) ==
  LET leftover == LeftoverUris(f, chosen)
      room == IF Len(chosen) < MaxPlaylistFill THEN MaxPlaylistFill - Len(chosen) ELSE 0
  IN  \E shuffled \in {T \in SUBSET leftover :
                         Cardinality(T) = Min(Cardinality(leftover), room)} :
        LET trackUris == Slice(Dedupe(chosen), MaxPlaylistTracks)
            g == [f EXCEPT !.trackUris = trackUris, !.shuffled = shuffled,
                           !.playlistId = playlistId]
        IN  IF Len(trackUris) + Cardinality(shuffled) > 0
            THEN /\ SetTop([g EXCEPT !.pc = "addTracks"])
                 /\ UNCHANGED <<outcome, result, error>>
            ELSE Return(stack, g, playlistId)

\* await spotify1.createPlaylist(playlistName, {description, public}),
\* lines 583-598
createPlaylist(ok) ==
  /\ At("createPlaylist")
  /\ IF ok
     THEN LET playlistId == Len(playlists) + 1
              shared == SharedTrackUris(top.user1Tracks, top.user2Tracks)
          IN  /\ playlists' = Append(playlists,
                     [id |-> playlistId,
                      name |-> <<"Music Match", spotify1.display_name, spotify2.display_name>>,
                      description |-> top.descriptionScore,
                      tracks |-> <<>>,
                      shuffled |-> {}])
              /\ IF Len(shared) < MaxPlaylistFill /\ Len(top.sharedArtists.exact) > 0
                 THEN /\ SetTop([top EXCEPT !.pc = "artistTopTracks",
                                            !.playlistId = playlistId,
                                            !.trackUris = shared])
                      /\ UNCHANGED <<outcome, result, error>>
                 ELSE FillAndAdd(top, playlistId, shared)
     ELSE /\ Return(stack, top, NoPlaylist)
          /\ UNCHANGED playlists
  /\ UNCHANGED <<spotify1, spotify2>>
  /\ UNCHANGED harness

\* await Promise.all(artistTrackPromises), lines 599-607
getArtistTopTracks(ok) ==
  /\ At("artistTopTracks")
  /\ IF ok
     THEN FillAndAdd(top, top.playlistId,
                     WithArtistTracks(top.trackUris, top.sharedArtists.exact))
     ELSE Return(stack, top, NoPlaylist)
  /\ UNCHANGED <<spotify1, spotify2, playlists>>
  /\ UNCHANGED harness

\* await spotify1.addTracksToPlaylist(playlist.id, trackUris), lines 620-624
addTracksToPlaylist(ok) ==
  /\ At("addTracks")
  /\ IF ok
     THEN /\ playlists' = [playlists EXCEPT ![top.playlistId].tracks = top.trackUris,
                                            ![top.playlistId].shuffled = top.shuffled]
          /\ Return(stack, top, top.playlistId)
     ELSE /\ Return(stack, top, NoPlaylist)
          /\ UNCHANGED playlists
  /\ UNCHANGED <<spotify1, spotify2>>
  /\ UNCHANGED harness

Next ==
  \/ \E ok \in BOOLEAN : TopArtists(ok)
  \/ \E ok \in BOOLEAN : TopTracks(ok)
  \/ \E ok \in BOOLEAN : calculateAudioFeaturesSimilarity(ok)
  \/ \E ok \in BOOLEAN : GetMe1(ok)
  \/ \E ok \in BOOLEAN : GetMe2(ok)
  \/ \E ok \in BOOLEAN : createPlaylist(ok)
  \/ \E ok \in BOOLEAN : getArtistTopTracks(ok)
  \/ \E ok \in BOOLEAN : addTracksToPlaylist(ok)

Spec == Init /\ [][Next]_vars

\* ------------------------------------------ every Spotify call succeeds
\* The call of line 584 made by an activation that is already MaxDepth nested
\* calls deep.  While every call succeeds no suspended activation is ever
\* resumed, so the stack keeps the innermost MaxDepth + 1 of them and drops the
\* outermost one.
Reenter ==
  /\ At("getMe2")
  /\ Len(stack) > MaxDepth
  /\ stack' = Append(Tail([stack EXCEPT ![Len(stack)].pc = "nested"]), NewFrame)
  /\ UNCHANGED <<spotify1, spotify2, outcome, result, error, playlists>>
  /\ UNCHANGED harness

\* the steps of a call whose Spotify requests all resolve
NextAllSucceed ==
  \/ TopArtists(TRUE)
  \/ TopTracks(TRUE)
  \/ calculateAudioFeaturesSimilarity(TRUE)
  \/ GetMe1(TRUE)
  \/ GetMe2(TRUE)
  \/ Reenter

\* the steps that compute no score
NextUnscored ==
  \/ TopArtists(TRUE)
  \/ GetMe1(TRUE)
  \/ GetMe2(TRUE)
  \/ Reenter

\* A resolved promise's continuation is run by the event loop, so a call that
\* can take a step does take one.  TopTracks and
\* calculateAudioFeaturesSimilarity are enabled exactly when the call is at
\* their label and leave it, so weak fairness of each is written as what it
\* amounts to: the call is not at that label for ever.
AllSucceedSpec ==
  /\ Init
  /\ [][NextAllSucceed]_vars
  /\ WF_vars(NextUnscored)
  /\ []<>~At("topTracks")
  /\ []<>~At("audioFeatures")

\* ------------------------------------------------- the engine called twice
\* accounts for two calls in a row: no, one or two artists, and no tracks, one
\* of two tracks with opposite features, both, or a track without features
TwiceArtistLists ==
  { <<>>, <<ArtistObject("a1")>>, <<ArtistObject("a1"), ArtistObject("a3")>> }

TwiceTrackLists ==
  { <<>>, <<TrackObject("t1")>>, <<TrackObject("t2")>>,
    <<TrackObject("t1"), TrackObject("t2")>>, <<TrackObject("t3")>> }

TwiceAccounts == [topArtists : TwiceArtistLists, topTracks : TwiceTrackLists,
                  display_name : {"user"}]

InitTwice ==
  /\ spotify1 \in TwiceAccounts
  /\ spotify2 \in TwiceAccounts
  /\ stack = <<NewFrame>>
  /\ outcome = "pending"
  /\ result = NoResult
  /\ error = NoError
  /\ playlists = <<>>
  /\ NoCalls
  /\ previous = NoPrevious
  /\ NoSite
  /\ NoRequests

\* The caller calls calculateCompatibility(spotify1, spotify2) a second time
\* once the first call has ended, with the same clients and accounts; the
\* playlists the first call created stay on Spotify.
CallAgain ==
  /\ ~Running
  /\ previous = NoPrevious
  /\ previous' = [outcome |-> outcome, result |-> result,
                   audioFetch |-> stack[1].audioFetch]
  /\ stack' = <<NewFrame>>
  /\ outcome' = "pending"
  /\ result' = NoResult
  /\ error' = NoError
  /\ UNCHANGED <<spotify1, spotify2, playlists, arg, ret, asked, other, site>>

NextTwice ==
  \/ \E ok \in BOOLEAN : TopArtists(ok)
  \/ \E ok \in BOOLEAN : TopTracks(ok)
  \/ \E ok \in BOOLEAN : calculateAudioFeaturesSimilarity(ok)
  \/ \E ok \in BOOLEAN : GetMe1(ok)
  \/ \E ok \in BOOLEAN : GetMe2(ok)
  \/ \E ok \in BOOLEAN : createPlaylist(ok)
  \/ \E ok \in BOOLEAN : getArtistTopTracks(ok)
  \/ \E ok \in BOOLEAN : addTracksToPlaylist(ok)
  \/ CallAgain

TwiceSpec == InitTwice /\ [][NextTwice]_vars

\* ------------------------------------------- nested calls one level deeper
\* getMe resolves in the activation that is MaxDepth nested calls deep: it
\* calls calculateCompatibility again (line 584) like its callers
GetMe2Deeper ==
  /\ At("getMe2")
  /\ Len(stack) = MaxDepth + 1
  /\ stack' = Append([stack EXCEPT ![Len(stack)].pc = "nested"], NewFrame)
  /\ UNCHANGED <<spotify1, spotify2, outcome, result, error, playlists>>
  /\ UNCHANGED harness

InitNested ==
  /\ spotify1 \in TwiceAccounts
  /\ spotify2 \in TwiceAccounts
  /\ stack = <<NewFrame>>
  /\ outcome = "pending"
  /\ result = NoResult
  /\ error = NoError
  /\ playlists = <<>>
  /\ NoCalls
  /\ previous = NoPrevious
  /\ NoSite
  /\ NoRequests

NextNested ==
  \/ \E ok \in BOOLEAN : TopArtists(ok)
  \/ \E ok \in BOOLEAN : TopTracks(ok)
  \/ \E ok \in BOOLEAN : calculateAudioFeaturesSimilarity(ok)
  \/ \E ok \in BOOLEAN : GetMe1(ok)
  \/ \E ok \in BOOLEAN : GetMe2(ok)
  \/ GetMe2Deeper
  \/ \E ok \in BOOLEAN : createPlaylist(ok)
  \/ \E ok \in BOOLEAN : getArtistTopTracks(ok)
  \/ \E ok \in BOOLEAN : addTracksToPlaylist(ok)

NestedSpec == InitNested /\ [][NextNested]_vars

\* ---------------------------------------------- two requests in one process
\* an account: its display name, top artists and top tracks by id
AccountOf(name, artistIds, trackIds) ==
  [topArtists |-> Map(ArtistObject, artistIds),
   topTracks |-> Map(TrackObject, trackIds),
   display_name |-> name]

\* the first request compares ann with bob or with bea
FirstRequests ==
  [user1 : {AccountOf("ann", <<"a1">>, <<"t1">>)},
   user2 : {AccountOf("bob", <<"a1", "a3">>, <<"t1", "t2">>),
            AccountOf("bea", <<>>, <<>>)}]

\* the second request compares cy with dee or with dan, four other users
SecondRequests ==
  [user1 : {AccountOf("cy", <<"a3">>, <<"t2">>)},
   user2 : {AccountOf("dee", <<"a3">>, <<"t2", "t3">>),
            AccountOf("dan", <<"a2">>, <<"t3">>)}]

\* A request at the point where POST calls calculateCompatibility (line 86 of
\* src/app/api/compatibility/route.ts): it has built its own two clients
\* from its own tokens (lines 29-34 and 67-72).
RequestFor(tokens) ==
  [asked |-> tokens, spotify1 |-> tokens.user1, spotify2 |-> tokens.user2,
   stack |-> <<NewFrame>>, outcome |-> "pending", result |-> NoResult,
   error |-> NoError, playlists |-> <<>>]

InitConcurrent ==
  /\ asked \in FirstRequests
  /\ spotify1 = asked.user1
  /\ spotify2 = asked.user2
  /\ stack = <<NewFrame>>
  /\ outcome = "pending"
  /\ result = NoResult
  /\ error = NoError
  /\ playlists = <<>>
  /\ NoCalls
  /\ previous = NoPrevious
  /\ NoSite
  /\ other \in {RequestFor(tokens) : tokens \in SecondRequests}

\* the running request as it is put aside
Suspended ==
  [asked |-> asked, spotify1 |-> spotify1, spotify2 |-> spotify2,
   stack |-> stack, outcome |-> outcome, result |-> result,
   error |-> error, playlists |-> playlists]

\* the same with one pair of clients for the whole process, as the client
\* exported by src/unnamed/part_001 (lines 37-43) is: the request taken up
\* goes on with the clients the other request set up
Switch_SharedClients ==
  /\ other # NoRequest
  /\ other.outcome = "pending"
  /\ other' = Suspended
  /\ asked' = other.asked
  /\ UNCHANGED <<spotify1, spotify2>>
  /\ stack' = other.stack
  /\ outcome' = other.outcome
  /\ result' = other.result
  /\ error' = other.error
  /\ playlists' = other.playlists
  /\ UNCHANGED <<arg, ret, previous, site>>

\* The running request is at an await and the event loop takes up the other
\* request, which goes on with its own clients, locals and Spotify accounts.
Switch ==
  /\ other # NoRequest
  /\ other.outcome = "pending"
  /\ other' = Suspended
  /\ asked' = other.asked
  /\ spotify1' = other.spotify1
  /\ spotify2' = other.spotify2
  /\ stack' = other.stack
  /\ outcome' = other.outcome
  /\ result' = other.result
  /\ error' = other.error
  /\ playlists' = other.playlists
  /\ UNCHANGED <<arg, ret, previous, site>>

NextConcurrent ==
  \/ \E ok \in BOOLEAN : TopArtists(ok)
  \/ \E ok \in BOOLEAN : TopTracks(ok)
  \/ \E ok \in BOOLEAN : calculateAudioFeaturesSimilarity(ok)
  \/ \E ok \in BOOLEAN : GetMe1(ok)
  \/ \E ok \in BOOLEAN : GetMe2(ok)
  \/ \E ok \in BOOLEAN : createPlaylist(ok)
  \/ \E ok \in BOOLEAN : getArtistTopTracks(ok)
  \/ \E ok \in BOOLEAN : addTracksToPlaylist(ok)
  \/ Switch

ConcurrentSpec == InitConcurrent /\ [][NextConcurrent]_vars

\* ------------------------------------------- functions applied on their own
\* calculateCompatibility is not running
NoEngine ==
  /\ spotify1 = Null
  /\ spotify2 = Null
  /\ stack = <<>>
  /\ outcome = "none"
  /\ result = NoResult
  /\ error = NoError
  /\ playlists = <<>>
  /\ previous = NoPrevious
  /\ NoRequests

engine == <<spotify1, spotify2, stack, outcome, result, error, playlists>>

\* the calls still to be made
CallsLeft == Len(ret) < Len(arg)

\* the arguments of the next call
nextArg == arg[Len(ret) + 1]

\* an AudioFeaturesObject: danceability d, the other four 0..1 features v
FeatureVector(d, v, tempo) ==
  [danceability |-> Num(d), energy |-> Num(v), tempo |-> Num(tempo),
   valence |-> Num(v), acousticness |-> Num(v), instrumentalness |-> Num(v)]

\* the entries an audio_features response is made of: null for a track
\* without features, else features in 0..1 and a tempo in 0..250
FeaturePool ==
  << Null, FeatureVector(0, 0, 0), FeatureVector(0, 0, 50), FeatureVector(1, 0, 50),
     FeatureVector(1, 1, 0), FeatureVector(1, 1, 50), FeatureVector(1, 1, 250) >>

\* audio_features responses for 1..MaxTracks track ids
FeatureResponses ==
  {SubAt(FeaturePool, S, 1) :
     S \in {T \in SUBSET DOMAIN FeaturePool :
              Cardinality(T) >= 1 /\ Cardinality(T) <= MaxTracks}}

InitFeatures ==
  /\ NoEngine
  /\ NoSite
  /\ arg \in {<<[features1Res |-> r1, features2Res |-> r2]>> :
                r1 \in FeatureResponses, r2 \in FeatureResponses}
  /\ ret = <<>>

\* lines 494-502 applied to two responses; the averages are kept beside the
\* value returned (Null when line 497 returns before they are computed)
AudioSimilarity ==
  /\ CallsLeft
  /\ LET features1 == Filter(NotNull, nextArg.features1Res)
         features2 == Filter(NotNull, nextArg.features2Res)
         averaged == Len(features1) # 0 /\ Len(features2) # 0
     IN  ret' = Append(ret,
           [avgFeatures1 |-> IF averaged THEN calculateAverageFeatures(features1) ELSE Null,
            avgFeatures2 |-> IF averaged THEN calculateAverageFeatures(features2) ELSE Null,
            audioFeaturesScore |->
              AudioSimilarityOf(nextArg.features1Res, nextArg.features2Res)])
  /\ UNCHANGED <<arg, engine, previous, asked, other, site>>

NextFeatures == AudioSimilarity

FeatureSpec == InitFeatures /\ [][NextFeatures]_vars

\* The artists of the specification's worked example (a1 pop, a2 rock,
\* a3 pop and indie) and a fourth with a3's genres in the other order.
ExampleArtist(id, name, genres) ==
  [id |-> id, name |-> name, genres |-> genres, images |-> ArtistImages(id)]

ExampleArtists ==
  { ExampleArtist("a1", "Ada", <<"pop">>), ExampleArtist("a2", "Bo", <<"rock">>),
    ExampleArtist("a3", "Cy", <<"pop", "indie">>),
    ExampleArtist("a4", "Di", <<"indie", "pop">>) }

\* top-artist lists of up to MaxArtists of them, in any order, repeats included
ExampleArtistLists == UNION {[1..n -> ExampleArtists] : n \in 0..MaxArtists}

InitShared ==
  /\ NoEngine
  /\ NoSite
  /\ arg \in {<<[user1Artists |-> a1, user2Artists |-> a2]>> :
                a1 \in ExampleArtistLists, a2 \in ExampleArtistLists}
  /\ ret = <<>>

\* lines 316-345 applied to two artist lists
SharedArtistsOf ==
  /\ CallsLeft
  /\ ret' = Append(ret,
        [exact |-> ExactShared(nextArg.user1Artists, nextArg.user2Artists),
         similar |-> SimilarShared(nextArg.user1Artists, nextArg.user2Artists)])
  /\ UNCHANGED <<arg, engine, previous, asked, other, site>>

NextShared == SharedArtistsOf

SharedSpec == InitShared /\ [][NextShared]_vars

\* top-track lists of up to MaxTracks tracks, in any order, repeats included
ExampleTrackLists ==
  UNION {[1..n -> {TrackObject(id) : id \in TrackIds}] : n \in 0..MaxTracks}

\* a call of the overlap functions on two artist lists, or on two track lists
InitOverlaps ==
  /\ NoEngine
  /\ NoSite
  /\ arg \in {<<[kind |-> "artists", list1 |-> a1, list2 |-> a2]>> :
                a1 \in ExampleArtistLists, a2 \in ExampleArtistLists}
          \cup {<<[kind |-> "tracks", list1 |-> t1, list2 |-> t2]>> :
                t1 \in ExampleTrackLists, t2 \in ExampleTrackLists}
  /\ ret = <<>>

\* lines 301-309 applied to two artist lists
ArtistOverlaps ==
  /\ CallsLeft
  /\ nextArg.kind = "artists"
  /\ ret' = Append(ret,
        [artistOverlap |-> calculateArtistOverlap(nextArg.list1, nextArg.list2),
         genreOverlap |-> calculateGenreOverlap(nextArg.list1, nextArg.list2)])
  /\ UNCHANGED <<arg, engine, previous, asked, other, site>>

\* lines 311-314 applied to two track lists
TrackOverlap ==
  /\ CallsLeft
  /\ nextArg.kind = "tracks"
  /\ ret' = Append(ret,
        [trackOverlap |-> calculateTrackOverlap(nextArg.list1, nextArg.list2)])
  /\ UNCHANGED <<arg, engine, previous, asked, other, site>>

NextOverlaps ==
  \/ ArtistOverlaps
  \/ TrackOverlap

OverlapSpec == InitOverlaps /\ [][NextOverlaps]_vars

\* overlaps and audio similarities in [0,1]
OverlapValues == {Num(0), Rat(1, 3), Rat(1, 2), Num(1)}

AudioValues == {Num(0), Rat(1, 10), Rat(1, 4), Rat(1, 2), Rat(3, 4), Num(1)}

\* two calls with the same three overlaps and two audio similarities
InitScores ==
  /\ NoEngine
  /\ NoSite
  /\ arg \in {<<[artistOverlap |-> a, genreOverlap |-> g, trackOverlap |-> t,
                  audioFeaturesScore |-> x1],
                 [artistOverlap |-> a, genreOverlap |-> g, trackOverlap |-> t,
                  audioFeaturesScore |-> x2]>> :
                a \in OverlapValues, g \in OverlapValues, t \in OverlapValues,
                x1 \in AudioValues, x2 \in AudioValues}
  /\ ret = <<>>

\* lines 359-378 applied to four metrics
WeightedScoreOf ==
  /\ CallsLeft
  /\ ret' = Append(ret,
        FinalScore(nextArg.artistOverlap, nextArg.genreOverlap, nextArg.trackOverlap,
                   nextArg.audioFeaturesScore, WeightsFor(nextArg.audioFeaturesScore)))
  /\ UNCHANGED <<arg, engine, previous, asked, other, site>>

NextScores == WeightedScoreOf

ScoreSpec == InitScores /\ [][NextScores]_vars

\* the scores generateCompatibilityMessages is called with: the integers
\* 0..100, and NaN when an overlap was NaN
MessageScores == {Num(k) : k \in 0..100} \cup {NaN}

\* lines 316-345
SharedOf(artists1, artists2) ==
  [exact |-> ExactShared(artists1, artists2),
   similar |-> SimilarShared(artists1, artists2)]

\* sharedArtists with an exact match, with a similar pair only, with neither
MessageShared ==
  { SharedOf(<<ArtistObject("a1")>>, <<ArtistObject("a1")>>),
    SharedOf(<<ArtistObject("a1")>>, <<ArtistObject("a3")>>),
    SharedOf(<<ArtistObject("a1")>>, <<ArtistObject("a2")>>) }

MessageArgs == [score : MessageScores, sharedArtists : MessageShared]

\* two calls of generateCompatibilityMessages
InitMessages ==
  /\ NoEngine
  /\ NoSite
  /\ arg \in {<<a, b>> : a \in MessageArgs, b \in MessageArgs}
  /\ ret = <<>>

\* a call with the headline picked among the three texts of its band by
\* Math.random, as in the revision of src/unnamed/part_000 (line 357)
GenerateMessages_Random ==
  /\ CallsLeft
  /\ \E randomIndex \in 0..2 :
       LET m == generateCompatibilityMessages(nextArg.score, nextArg.sharedArtists)
       IN  ret' = Append(ret, [m EXCEPT !.overall = <<m.overall, randomIndex>>])
  /\ UNCHANGED <<arg, engine, previous, asked, other, site>>

\* line 380: a call of generateCompatibilityMessages (lines 525-570)
GenerateMessages ==
  /\ CallsLeft
  /\ ret' = Append(ret,
        generateCompatibilityMessages(nextArg.score, nextArg.sharedArtists))
  /\ UNCHANGED <<arg, engine, previous, asked, other, site>>

NextMessages == GenerateMessages

MessagesSpec == InitMessages /\ [][NextMessages]_vars

\* ------------------------------------------------------------ GET /api/user
\* the engine and the functions applied on their own
backend == <<engine, arg, ret, previous, asked, other>>

\* none of them runs
NoBackend == NoEngine /\ NoCalls

\* whose data Spotify returns for an access token: ann's for "tokenA", bob's
\* for "tokenB"
UserOf(token) == IF token = "tokenA" THEN "ann" ELSE "bob"

\* the Spotify calls of the handler in order (lines 112-140)
UserCalls == <<"getMe", "getMyTopTracks", "getMyTopArtists", "getUserPlaylists",
               "getMyRecentlyPlayedTracks">>

\* the calls whose rejection ends the request (lines 111-127)
Critical(call) == call \in {"getMe", "getMyTopTracks", "getMyTopArtists"}

\* the status of the response to a rejected critical call (lines 157-164)
ErrorStatuses == {401, 403, 429, 500}

\* a request with the cookie spotify_access_token = token (NoToken: no cookie)
NewHandler(token) ==
  [accessToken |-> token, pc |-> "start", sent |-> NoToken, used |-> <<>>,
   body |-> <<>>, status |-> 0]

InitUser ==
  /\ NoBackend
  /\ NoSession
  /\ NoToasts
  /\ spotifyApi = [accessToken |-> NoToken]
  /\ handlers \in {<<NewHandler(t1), NewHandler(t2)>> :
                     t1 \in {"tokenA", NoToken}, t2 \in {"tokenB", NoToken}}

\* lines 97-112: without the cookie the answer is 401; with it the token is
\* set on the client every request shares and getMe is called, which builds
\* its request with the token the client holds at the call
GET(i) ==
  /\ handlers[i].pc = "start"
  /\ IF handlers[i].accessToken = NoToken
     THEN /\ handlers' = [handlers EXCEPT ![i].pc = "responded", ![i].status = 401]
          /\ UNCHANGED spotifyApi
     ELSE /\ spotifyApi' = [spotifyApi EXCEPT !.accessToken = handlers[i].accessToken]
          /\ handlers' = [handlers EXCEPT ![i].pc = "getMe",
                                          ![i].sent = handlers[i].accessToken,
                                          ![i].used = <<handlers[i].accessToken>>]
  /\ UNCHANGED <<backend, cookies, session, toasts, shownToasts, now>>

\* the position of a call among UserCalls
CallIndex(call) == CHOOSE k \in DOMAIN UserCalls : UserCalls[k] = call

\* The call request i awaits settles (lines 112-151).  Spotify answers with
\* the data of the user the call's token belongs to.  A rejected critical
\* call ends the request with an error status; a rejected other call leaves
\* an empty list.  The next call is made with the token the shared client
\* holds by then; after the last one the response is sent.
Settle(i, ok) ==
  /\ handlers[i].pc \in SetOf(UserCalls)
  /\ LET h == handlers[i]
         k == CallIndex(h.pc)
         data == IF ok THEN UserOf(h.sent) ELSE "empty"
     IN  IF ~ok /\ Critical(h.pc)
         THEN \E statusCode \in ErrorStatuses :
                handlers' = [handlers EXCEPT ![i].pc = "responded",
                                             ![i].body = <<>>,
                                             ![i].status = statusCode]
         ELSE IF k = Len(UserCalls)
         THEN handlers' = [handlers EXCEPT ![i].pc = "responded",
                                           ![i].body = Append(h.body, data),
                                           ![i].status = 200]
         ELSE handlers' = [handlers EXCEPT ![i].pc = UserCalls[k + 1],
                                           ![i].body = Append(h.body, data),
                                           ![i].sent = spotifyApi.accessToken,
                                           ![i].used = Append(h.used, spotifyApi.accessToken)]
  /\ UNCHANGED <<backend, spotifyApi, cookies, session, toasts, shownToasts, now>>

NextUser ==
  \/ \E i \in 1..2 : GET(i)
  \/ \E i \in 1..2, ok \in BOOLEAN : Settle(i, ok)

UserSpec == InitUser /\ [][NextUser]_vars

\* --------------------------------------------------- middleware and session
\* request paths by their segments: <<>> is "/", <<"api", "auth", "callback">>
\* is "/api/auth/callback"
Paths ==
  { <<>>, <<"dashboard">>, <<"dashboard", "stats">>, <<"api", "user">>,
    <<"api", "compatibility">>, <<"api", "auth", "callback">>,
    <<"api", "auth", "refresh">>, <<"api", "authors">>, <<"favicon.ico">>,
    <<"_next", "static">>, <<"about">> }

\* config.matcher: '/', '/dashboard/:path*', '/api/:path*'
Matched(path) == path = <<>> \/ (path # <<>> /\ path[1] \in {"dashboard", "api"})

\* path.startsWith('/api/auth'): a prefix of the text, so "/api/authors" too
StartsWithApiAuth(path) ==
  Len(path) >= 2 /\ path[1] = "api" /\ path[2] \in {"auth", "authors"}

\* path.startsWith('/_next/')
StartsWithNext(path) == Len(path) >= 2 /\ path[1] = "_next"

\* NextResponse.redirect(new URL(to, request.url))
Redirect(to) == [kind |-> "redirect", to |-> to]

\* NextResponse.next()
PassOn == [kind |-> "next", to |-> <<>>]

\* the same with every path under /api taken for public
middleware_ApiPublic(path, jar) ==
  LET isPublicPath == path = <<>> \/ (path # <<>> /\ path[1] = "api")
      token == jar.spotify_access_token
  IN  IF ~isPublicPath /\ token = NoToken THEN Redirect(<<>>)
      ELSE IF path = <<>> /\ token # NoToken THEN Redirect(<<"dashboard">>)
      ELSE PassOn

\* src/middleware.ts, lines 4-25
middleware(path, jar) ==
  LET isPublicPath == path = <<>> \/ StartsWithApiAuth(path)
      token == jar.spotify_access_token
  IN  IF ~isPublicPath /\ token = NoToken THEN Redirect(<<>>)
      ELSE IF path = <<>> /\ token # NoToken THEN Redirect(<<"dashboard">>)
      ELSE PassOn

\* the later revision, src/unnamed/part_004 lines 4-34: a request without
\* access token but with refresh token is sent to the refresh endpoint
middlewareWithRefresh(path, jar) ==
  LET isPublicPath == \/ path = <<>>
                      \/ StartsWithApiAuth(path)
                      \/ path = <<"favicon.ico">>
                      \/ StartsWithNext(path)
      accessToken == jar.spotify_access_token
      refreshToken == jar.spotify_refresh_token
  IN  IF ~isPublicPath /\ accessToken = NoToken
      THEN IF refreshToken # NoToken THEN Redirect(<<"api", "auth", "refresh">>)
           ELSE Redirect(<<>>)
      ELSE IF path = <<>> /\ accessToken # NoToken THEN Redirect(<<"dashboard">>)
      ELSE PassOn

Revisions == {"middleware.ts", "part_004"}

InitSession ==
  /\ NoBackend
  /\ NoHandlers
  /\ NoToasts
  /\ NoSession

\* the browser asks for a matched path; the middleware of either revision
\* answers from the cookies of the request
Visit(path, revision) ==
  /\ Matched(path)
  /\ session' = [session EXCEPT !.last =
        [path |-> path, revision |-> revision, jar |-> cookies,
         verdict |-> IF revision = "middleware.ts" THEN middleware(path, cookies)
                     ELSE middlewareWithRefresh(path, cookies)]]
  /\ UNCHANGED <<backend, spotifyApi, handlers, cookies, toasts, shownToasts, now>>

\* GET /api/auth/callback?code=..., callback/route.ts lines 4-44: when the
\* grant succeeds both cookies are set; without a code or when the grant is
\* rejected the browser is sent back to "/" and keeps its cookies
Callback(ok) ==
  /\ IF ok
     THEN /\ cookies' = [spotify_access_token |-> "access",
                         spotify_refresh_token |-> "refresh"]
          /\ session' = [session EXCEPT !.loggedOut = FALSE]
     ELSE UNCHANGED <<cookies, session>>
  /\ UNCHANGED <<backend, spotifyApi, handlers, toasts, shownToasts, now>>

\* POST /api/auth/logout, logout/route.ts lines 3-23: the access-token cookie
\* is set with maxAge 0, the refresh-token cookie is left as it is.  What the
\* middleware answered before the logout is forgotten.
LogoutPost ==
  /\ cookies' = [cookies EXCEPT !.spotify_access_token = NoToken]
  /\ session' = [loggedOut |-> TRUE, last |-> NoVisit]
  /\ UNCHANGED <<backend, spotifyApi, handlers, toasts, shownToasts, now>>

\* GET /api/auth/logout, logout/route.ts lines 25-32: both cookies deleted
LogoutGet ==
  /\ cookies' = [spotify_access_token |-> NoToken, spotify_refresh_token |-> NoToken]
  /\ UNCHANGED <<backend, spotifyApi, handlers, session, toasts, shownToasts, now>>

\* GET /api/auth/refresh, src/unnamed/part_008 lines 4-53: without the
\* refresh-token cookie 401; a granted refresh sets a new access-token
\* cookie, a rejected one clears both cookies
Refresh(ok) ==
  /\ IF cookies.spotify_refresh_token = NoToken
     THEN UNCHANGED cookies
     ELSE IF ok
     THEN cookies' = [cookies EXCEPT !.spotify_access_token = "access"]
     ELSE cookies' = [spotify_access_token |-> NoToken, spotify_refresh_token |-> NoToken]
  /\ UNCHANGED <<backend, spotifyApi, handlers, session, toasts, shownToasts, now>>

\* a cookie reaches its maxAge (callback/route.ts lines 20 and 31)
Expire(name) ==
  /\ cookies[name] # NoToken
  /\ cookies' = [cookies EXCEPT ![name] = NoToken]
  /\ UNCHANGED <<backend, spotifyApi, handlers, session, toasts, shownToasts, now>>

NextSession ==
  \/ \E path \in Paths, revision \in Revisions : Visit(path, revision)
  \/ \E ok \in BOOLEAN : Callback(ok)
  \/ LogoutPost
  \/ LogoutGet
  \/ \E ok \in BOOLEAN : Refresh(ok)
  \/ \E name \in {"spotify_access_token", "spotify_refresh_token"} : Expire(name)

SessionSpec == InitSession /\ [][NextSession]_vars

\* ------------------------------------------------------------------ toasts
ToastMessages == {"Playlist created", "Link copied"}

ToastTypes == {"success", "error"}

VisibleToasts == 3

InitToasts ==
  /\ NoBackend
  /\ NoHandlers
  /\ NoSession
  /\ NoToasts

\* the clock reaches the next millisecond
Tick ==
  /\ now < MaxTime
  /\ now' = now + 1
  /\ UNCHANGED <<backend, spotifyApi, handlers, cookies, session, toasts, shownToasts>>

\* the last n elements of s: s.slice(-n)
LastOf(s, n) == IF Len(s) <= n THEN s ELSE SubSeq(s, Len(s) - n + 1, Len(s))

\* showToast, ToastContext.tsx lines 35-48: a message and type not shown
\* before is appended with id Date.now().toString(), and the last three
\* toasts are kept
showToast(message, type) ==
  LET toastKey == <<message, "-", type>>
      id == now
  IN  /\ IF toastKey \notin shownToasts
         THEN /\ shownToasts' = shownToasts \cup {toastKey}
              /\ toasts' = LastOf(Append(toasts, [id |-> id, message |-> message,
                                                   type |-> type]),
                                   VisibleToasts)
         ELSE UNCHANGED <<toasts, shownToasts>>
      /\ UNCHANGED <<backend, spotifyApi, handlers, cookies, session, now>>

\* removeToast, lines 50-52, called by the onClose of a visible toast
removeToast(id) ==
  LET Others(toast) == toast.id # id
  IN  /\ \E i \in DOMAIN toasts : toasts[i].id = id
      /\ toasts' = Filter(Others, toasts)
      /\ UNCHANGED <<backend, spotifyApi, handlers, cookies, session, shownToasts, now>>

NextToasts ==
  \/ Tick
  \/ \E message \in ToastMessages, type \in ToastTypes : showToast(message, type)
  \/ \E id \in 0..MaxTime : removeToast(id)

ToastSpec == InitToasts /\ [][NextToasts]_vars

\* ------------------------------------------------------------ properties
Returned == outcome = "returned"

\* the outermost activation
outer == stack[1]

\* an activation whose audioFeaturesScore, weights and finalScore are set
IsScored(f) == f.audioFetch # "none"

\* round(100 * (wa*artistOverlap + wg*genreOverlap + wt*trackOverlap +
\* wf*audioFeaturesScore)) for weights given in hundredths; NaN when a metric
\* is NaN
WeightedScore(wa, wg, wt, wf, m) ==
  MathRound(RMul(Num(100),
     RAdd(RMul(Rat(wa, 100), m.artistOverlap),
     RAdd(RMul(Rat(wg, 100), m.genreOverlap),
     RAdd(RMul(Rat(wt, 100), m.trackOverlap),
          RMul(Rat(wf, 100), m.audioFeaturesScore))))))

MetricsOf(f) == [artistOverlap |-> f.artistOverlap, genreOverlap |-> f.genreOverlap,
                 trackOverlap |-> f.trackOverlap,
                 audioFeaturesScore |-> f.audioFeaturesScore]

GenreSet(artists) == UNION {SetOf(artists[i].genres) : i \in DOMAIN artists}

IdSet(items) == {items[i].id : i \in DOMAIN items}

\* C1: if both users' artist lists are empty the returned artistOverlap is 0,
\* and if both track lists are empty the returned trackOverlap is 0.
\* The code divides 0 by 0 and returns NaN.
C1_EmptyListsGiveZero ==
  Returned =>
    /\ (spotify1.topArtists = <<>> /\ spotify2.topArtists = <<>>
          => result.metrics.artistOverlap = Num(0))
    /\ (spotify1.topTracks = <<>> /\ spotify2.topTracks = <<>>
          => result.metrics.trackOverlap = Num(0))

\* C2: if the union of the two flattened genre sets is empty (also when the
\* artist lists are not), the returned genreOverlap is 0.
\* The code divides 0 by 0 and returns NaN.
C2_EmptyGenresGiveZero ==
  Returned =>
    (GenreSet(spotify1.topArtists) \cup GenreSet(spotify2.topArtists) = {}
       => result.metrics.genreOverlap = Num(0))

\* C3: every returned score is an integer in 0..100.
\* A NaN overlap (C1, C2) makes the score NaN.
C3_ScoreInRange ==
  Returned => result.score.d = 1 /\ result.score.n \in 0..100

\* C4: whenever audioFeaturesScore is exactly 0, the redistributed weights are
\* in force and score = round(100 * (0.35*artistOverlap + 0.35*genreOverlap +
\* 0.3*trackOverlap)), in every scored activation and in the returned result.
C4_RedistributedScore ==
  /\ \A i \in DOMAIN stack :
       IsScored(stack[i]) /\ StrictEq(stack[i].audioFeaturesScore, Num(0))
         => /\ stack[i].weights = [artists |-> 35, genres |-> 35, tracks |-> 30,
                                   audioFeatures |-> 0]
            /\ stack[i].finalScore = WeightedScore(35, 35, 30, 0, MetricsOf(stack[i]))
  /\ Returned /\ StrictEq(result.metrics.audioFeaturesScore, Num(0))
       => result.score = WeightedScore(35, 35, 30, 0, result.metrics)

C4_Witness ==
  /\ Returned
  /\ result.metrics.audioFeaturesScore = Num(0)
  /\ outer.audioFetch = "resolved"
  /\ result.score = Num(50)

\* C5: whenever audioFeaturesScore is not 0, score = round(100 *
\* (0.3*artistOverlap + 0.3*genreOverlap + 0.2*trackOverlap +
\* 0.2*audioFeaturesScore)); and the weights in force always sum to 1.
C5_DefaultScore ==
  /\ \A i \in DOMAIN stack :
       /\ stack[i].weights.artists + stack[i].weights.genres
            + stack[i].weights.tracks + stack[i].weights.audioFeatures = 100
       /\ IsScored(stack[i]) /\ ~StrictEq(stack[i].audioFeaturesScore, Num(0))
            => stack[i].finalScore = WeightedScore(30, 30, 20, 20, MetricsOf(stack[i]))
  /\ Returned /\ ~StrictEq(result.metrics.audioFeaturesScore, Num(0))
       => result.score = WeightedScore(30, 30, 20, 20, result.metrics)

C5_Witness ==
  /\ Returned
  /\ result.metrics.audioFeaturesScore = Rat(1, 2)
  /\ result.metrics.artistOverlap = Rat(1, 3)
  /\ result.score = Num(45)

\* an activation in which a user contributes no usable audio-feature vector:
\* an empty track list, only null entries, or a rejected fetch
NoUsableFeatures(f) ==
  \/ Len(f.user1Tracks) = 0
  \/ Len(f.user2Tracks) = 0
  \/ f.audioFetch = "rejected"
  \/ \A i \in DOMAIN f.user1Tracks : AudioFeaturesOf(f.user1Tracks[i].id) = Null
  \/ \A i \in DOMAIN f.user2Tracks : AudioFeaturesOf(f.user2Tracks[i].id) = Null

\* C6: if either user contributes no usable audio-feature vector,
\* audioFeaturesScore is 0, the redistributed weights are used, and the call
\* returns a result, it does not throw.
C6_MissingAudio ==
  /\ \A i \in DOMAIN stack :
       IsScored(stack[i]) /\ NoUsableFeatures(stack[i])
         => /\ stack[i].audioFeaturesScore = Num(0)
            /\ stack[i].weights = [artists |-> 35, genres |-> 35, tracks |-> 30,
                                   audioFeatures |-> 0]
  /\ IsScored(outer) /\ NoUsableFeatures(outer) /\ ~Running
       => /\ Returned
          /\ result.metrics.audioFeaturesScore = Num(0)
          /\ result.score = WeightedScore(35, 35, 30, 0, result.metrics)

\* a returned call whose feature fetch resolved with only null entries for
\* the first user
C6_Witness ==
  /\ Returned
  /\ outer.audioFetch = "resolved"
  /\ Len(outer.user1Tracks) > 0
  /\ \A i \in DOMAIN outer.user1Tracks : AudioFeaturesOf(outer.user1Tracks[i].id) = Null
  /\ AudioFeaturesOf(outer.user2Tracks[1].id) # Null

\* C7: given the two artist lists and the two track lists, a computation never
\* ends by throwing, with or without audio data: the outermost call throws
\* only while it awaits its own top-artist or top-track lists.
C7_NoThrowOnceListsArrived ==
  outcome = "thrown" => outer.pc \in {"topArtists", "topTracks"}

\* a call that returned although its feature fetch was rejected and it got
\* no playlist
C7_Witness ==
  /\ Returned
  /\ outer.audioFetch = "rejected"
  /\ result.playlistId = NoPlaylist
  /\ Len(outer.user1Artists) > 0

\* C8: with non-empty id sets, swapping user1 and user2 leaves artistOverlap,
\* genreOverlap and trackOverlap unchanged.
C8_Symmetry ==
  Returned =>
    /\ (spotify1.topArtists # <<>> /\ spotify2.topArtists # <<>>
          => result.metrics.artistOverlap
               = calculateArtistOverlap(spotify2.topArtists, spotify1.topArtists))
    /\ (GenreSet(spotify1.topArtists) # {} /\ GenreSet(spotify2.topArtists) # {}
          => result.metrics.genreOverlap
               = calculateGenreOverlap(spotify2.topArtists, spotify1.topArtists))
    /\ (spotify1.topTracks # <<>> /\ spotify2.topTracks # <<>>
          => result.metrics.trackOverlap
               = calculateTrackOverlap(spotify2.topTracks, spotify1.topTracks))

\* a returned comparison of lists of different sizes that share one artist,
\* one genre and one track
C8_Witness ==
  /\ Returned
  /\ Len(spotify1.topArtists) = 1 /\ Len(spotify2.topArtists) = 2
  /\ Len(spotify1.topTracks) = 2 /\ Len(spotify2.topTracks) = 1
  /\ result.metrics.artistOverlap = Rat(1, 2)
  /\ result.metrics.genreOverlap = Rat(1, 2)
  /\ result.metrics.trackOverlap = Rat(1, 2)

\* C9: the same non-empty artist list for both users gives artistOverlap 1,
\* the same non-empty genre set genreOverlap 1, the same non-empty track list
\* trackOverlap 1.
C9_SelfIdentity ==
  Returned =>
    /\ (spotify1.topArtists # <<>> /\ spotify1.topArtists = spotify2.topArtists
          => result.metrics.artistOverlap = Num(1))
    /\ (GenreSet(spotify1.topArtists) # {}
        /\ GenreSet(spotify1.topArtists) = GenreSet(spotify2.topArtists)
          => result.metrics.genreOverlap = Num(1))
    /\ (spotify1.topTracks # <<>> /\ spotify1.topTracks = spotify2.topTracks
          => result.metrics.trackOverlap = Num(1))

\* a returned comparison of a user with an identical one, two artists and two
\* tracks each
C9_Witness ==
  /\ Returned
  /\ Len(spotify1.topArtists) = 2 /\ spotify1.topArtists = spotify2.topArtists
  /\ GenreSet(spotify1.topArtists) # {}
  /\ Len(spotify1.topTracks) = 2 /\ spotify1.topTracks = spotify2.topTracks
  /\ result.metrics.artistOverlap = Num(1)
  /\ result.metrics.genreOverlap = Num(1)
  /\ result.metrics.trackOverlap = Num(1)

\* C10: disjoint non-empty artist lists give artistOverlap 0; disjoint
\* non-empty track lists give trackOverlap 0, and the score is then the
\* rounded weighted sum of the artist, genre and audio components alone.
C10_DisjointGivesZero ==
  Returned =>
    /\ (spotify1.topArtists # <<>> /\ spotify2.topArtists # <<>>
        /\ IdSet(spotify1.topArtists) \cap IdSet(spotify2.topArtists) = {}
          => result.metrics.artistOverlap = Num(0))
    /\ (spotify1.topTracks # <<>> /\ spotify2.topTracks # <<>>
        /\ IdSet(spotify1.topTracks) \cap IdSet(spotify2.topTracks) = {}
          => /\ result.metrics.trackOverlap = Num(0)
             /\ result.score =
                  MathRound(RMul(Num(100),
                    RAdd(RMul(Weight(outer.weights.artists), result.metrics.artistOverlap),
                    RAdd(RMul(Weight(outer.weights.genres), result.metrics.genreOverlap),
                         RMul(Weight(outer.weights.audioFeatures),
                              result.metrics.audioFeaturesScore))))))

\* a returned comparison with disjoint track lists and a score that comes
\* from the artists and the genres
C10_Witness ==
  /\ Returned
  /\ Len(spotify1.topTracks) = 1 /\ Len(spotify2.topTracks) = 2
  /\ IdSet(spotify1.topTracks) \cap IdSet(spotify2.topTracks) = {}
  /\ result.metrics.trackOverlap = Num(0)
  /\ result.metrics.artistOverlap = Num(1)
  /\ result.metrics.genreOverlap = Num(1)
  /\ result.score = Num(70)

\* the five 0..1 dimensions of two averaged vectors each differ by 1 and the
\* tempos by at least the normalization constant
MaximallyDivergent(f1, f2) ==
  /\ \A k \in FeatureNames \ {"tempo"} : MathAbs(RSub(f1[k], f2[k])) = Num(1)
  /\ RLeq(Num(TempoNormalization), MathAbs(RSub(f1.tempo, f2.tempo)))

\* C11: whenever the averaged feature vectors of the two users are identical,
\* the audioFeaturesScore returned is 1.
C11_IdenticalVectorsGiveOne ==
  \A i \in DOMAIN ret :
    ret[i].avgFeatures1 # Null /\ ret[i].avgFeatures1 = ret[i].avgFeatures2
      => ret[i].audioFeaturesScore = Num(1)

\* two different responses with the same average, half way between the
\* extremes, score 1
C11_Witness ==
  /\ Len(ret) = 1
  /\ arg[1].features1Res # arg[1].features2Res
  /\ ret[1].avgFeatures1 # Null
  /\ ret[1].avgFeatures1 = ret[1].avgFeatures2
  /\ ret[1].avgFeatures1.energy = Rat(1, 2)
  /\ ret[1].audioFeaturesScore = Num(1)

\* C12: whenever the averaged vectors are maximally divergent, the
\* audioFeaturesScore returned is 0; and no audioFeaturesScore is negative.
C12_MaxDivergentGivesZero ==
  \A i \in DOMAIN ret :
    /\ RLeq(Num(0), ret[i].audioFeaturesScore)
    /\ ret[i].avgFeatures1 # Null /\ MaximallyDivergent(ret[i].avgFeatures1, ret[i].avgFeatures2)
         => ret[i].audioFeaturesScore = Num(0)

\* averaged vectors at opposite extremes whose tempos are further apart than
\* the normalization constant
C12_Witness ==
  /\ Len(ret) = 1
  /\ ret[1].avgFeatures1 # Null
  /\ MaximallyDivergent(ret[1].avgFeatures1, ret[1].avgFeatures2)
  /\ MathAbs(RSub(ret[1].avgFeatures1.tempo, ret[1].avgFeatures2.tempo)) = Num(250)
  /\ ret[1].audioFeaturesScore = Num(0)

\* a number in [0,1]; NaN is not
InUnitInterval(x) == ~IsNaN(x) /\ RLeq(Num(0), x) /\ RLeq(x, Num(1))

\* C13: in every returned result artistOverlap, genreOverlap, trackOverlap
\* and audioFeaturesScore lie in [0,1].
\* An overlap of two empty sets is 0 / 0 = NaN.
C13_MetricsInUnitInterval ==
  Returned =>
    /\ InUnitInterval(result.metrics.artistOverlap)
    /\ InUnitInterval(result.metrics.genreOverlap)
    /\ InUnitInterval(result.metrics.trackOverlap)
    /\ InUnitInterval(result.metrics.audioFeaturesScore)

\* the positions of user2's list whose artist's id occurs in user1's list
SharedPositions(artists1, artists2) ==
  {j \in DOMAIN artists2 : \E i \in DOMAIN artists1 : artists1[i].id = artists2[j].id}

\* the k-th smallest member of a set of positions
KthOf(P, k) == CHOOSE j \in P : Cardinality({m \in P : m < j}) = k - 1

\* C14: sharedArtists.exact has one entry for each artist of user2's list
\* whose id occurs in user1's list, in the order of user2's list, with that
\* artist's name, id and first image, and no other entry.
C14_ExactIsUser2Subsequence ==
  \A c \in DOMAIN ret :
    LET artists1 == arg[c].user1Artists
        artists2 == arg[c].user2Artists
        P == SharedPositions(artists1, artists2)
        exact == ret[c].exact
    IN  /\ Len(exact) = Cardinality(P)
        /\ \A k \in DOMAIN exact :
             LET artist == artists2[KthOf(P, k)]
             IN  /\ exact[k].id = artist.id
                 /\ exact[k].name = artist.name
                 /\ exact[k].image = IF artist.images = <<>> THEN Undefined
                                     ELSE artist.images[1].url

\* the two users list the same two artists in opposite orders
C14_Witness ==
  /\ Len(ret) = 1
  /\ Map(IdOf, arg[1].user1Artists) = <<"a1", "a3">>
  /\ Map(IdOf, arg[1].user2Artists) = <<"a3", "a1">>
  /\ Map(IdOf, ret[1].exact) = <<"a3", "a1">>

\* the pairs (position in user1's list, position in user2's list) of artists
\* with different ids and a common genre
SimilarPairs(artists1, artists2) ==
  {p \in (DOMAIN artists1) \X (DOMAIN artists2) :
     /\ artists1[p[1]].id # artists2[p[2]].id
     /\ SetOf(artists1[p[1]].genres) \cap SetOf(artists2[p[2]].genres) # {}}

\* the record of a pair: both names and genre lists, and the genres of
\* artist1 that occur in artist2's genres
SimilarRecord(artist1, artist2) ==
  [user1Artist |-> [name |-> artist1.name, genres |-> artist1.genres],
   user2Artist |-> [name |-> artist2.name, genres |-> artist2.genres],
   sharedGenres |-> SelectSeq(artist1.genres, LAMBDA g : g \in SetOf(artist2.genres))]

\* C15: sharedArtists.similar holds exactly one record for every pair of an
\* artist of user1 and an artist of user2 with different ids and a common
\* genre: each record occurs as often as there are such pairs that give it.
C15_SimilarIsThePairs ==
  \A c \in DOMAIN ret :
    LET artists1 == arg[c].user1Artists
        artists2 == arg[c].user2Artists
        pairs == SimilarPairs(artists1, artists2)
        similar == ret[c].similar
        records == SetOf(similar) \cup
                   {SimilarRecord(artists1[p[1]], artists2[p[2]]) : p \in pairs}
    IN  /\ Len(similar) = Cardinality(pairs)
        /\ \A r \in records :
             Cardinality({k \in DOMAIN similar : similar[k] = r})
               = Cardinality({p \in pairs :
                                SimilarRecord(artists1[p[1]], artists2[p[2]]) = r})

\* the worked example: user1 [a1 pop, a2 rock], user2 [a1 pop, a3 pop indie]
\* gives the one record (a1, a3) with sharedGenres [pop]
C15_Witness ==
  /\ Len(ret) = 1
  /\ arg[1].user1Artists = <<ExampleArtist("a1", "Ada", <<"pop">>),
                             ExampleArtist("a2", "Bo", <<"rock">>)>>
  /\ arg[1].user2Artists = <<ExampleArtist("a1", "Ada", <<"pop">>),
                             ExampleArtist("a3", "Cy", <<"pop", "indie">>)>>
  /\ ret[1].similar =
       << [user1Artist |-> [name |-> "Ada", genres |-> <<"pop">>],
           user2Artist |-> [name |-> "Cy", genres |-> <<"pop", "indie">>],
           sharedGenres |-> <<"pop">>] >>

\* a score that is an integer in 0..100
IsPercentage(score) == ~IsNaN(score) /\ score.d = 1 /\ score.n \in 0..100

\* the band of a score: 80 and above, 60 to 79, 40 to 59, below 40
BandOf(score) ==
  CASE score.n >= 80                   -> "80-100"
    [] score.n >= 60 /\ score.n < 80   -> "60-79"
    [] score.n >= 40 /\ score.n < 60   -> "40-59"
    [] score.n < 40                    -> "0-39"

\* C16: of two calls with scores in 0..100, the overall headlines are the
\* same exactly when the scores lie in the same of the bands >= 80, 60..79,
\* 40..59, < 40, whatever the shared artists are.
C16_HeadlineByBand ==
  \A i \in DOMAIN ret : \A j \in DOMAIN ret :
    IsPercentage(arg[i].score) /\ IsPercentage(arg[j].score)
      => (BandOf(arg[i].score) = BandOf(arg[j].score)
            <=> ret[i].overall = ret[j].overall)

\* 79 and 80 get different headlines, with different shared artists or not
C16_Witness ==
  /\ Len(ret) = 2
  /\ arg[1].score = Num(79) /\ arg[2].score = Num(80)
  /\ ret[1].overall = "great compatibility"
  /\ ret[2].overall = "musical soulmates"

SameAudioData(fetch1, fetch2) == (fetch1 = "rejected") <=> (fetch2 = "rejected")

\* C17: a second call with the same artist lists, track lists and audio data
\* as the first returns the same score, metrics, sharedArtists and messages.
C17_Idempotence ==
  /\ previous # NoPrevious
  /\ previous.outcome = "returned"
  /\ Returned
  /\ SameAudioData(previous.audioFetch, stack[1].audioFetch)
  => /\ result.score = previous.result.score
     /\ result.metrics = previous.result.metrics
     /\ result.sharedArtists = previous.result.sharedArtists
     /\ result.messages = previous.result.messages

\* two calls that both fetched the features and both created a playlist:
\* same score, different playlists
C17_Witness ==
  /\ previous # NoPrevious
  /\ previous.outcome = "returned"
  /\ Returned
  /\ previous.audioFetch = "resolved" /\ stack[1].audioFetch = "resolved"
  /\ result.metrics.audioFeaturesScore = Rat(1, 2)
  /\ result.score = previous.result.score
  /\ result.messages = previous.result.messages
  /\ previous.result.playlistId # NoPlaylist
  /\ result.playlistId # NoPlaylist
  /\ result.playlistId # previous.result.playlistId

\* C18: the lists a call of calculateCompatibility received stay as they
\* were received, in order, elements and genres, at every later point of the
\* call and after it.
C18_InputsUnchanged ==
  \A i \in DOMAIN stack :
    /\ stack[i].pc # "topArtists"
         => /\ stack[i].user1Artists = spotify1.topArtists
            /\ stack[i].user2Artists = spotify2.topArtists
    /\ stack[i].pc \notin {"topArtists", "topTracks"}
         => /\ stack[i].user1Tracks = spotify1.topTracks
            /\ stack[i].user2Tracks = spotify2.topTracks

\* a returned call that found a similar pair and shuffled three top tracks
\* into its playlist
C18_Witness ==
  /\ Returned
  /\ result.playlistId # NoPlaylist
  /\ Cardinality(playlists[result.playlistId].shuffled) = 3
  /\ Len(stack[1].user1Tracks) = 2
  /\ Len(result.sharedArtists.similar) > 0
  /\ stack[1].user1Tracks = spotify1.topTracks
  /\ stack[1].user1Artists = spotify1.topArtists

\* score, metrics, sharedArtists and messages of a comparison of two accounts
\* made on its own, with the audio features fetched or not
ResultAlone(user1, user2, fetched) ==
  LET artistOverlap == calculateArtistOverlap(user1.topArtists, user2.topArtists)
      genreOverlap  == calculateGenreOverlap(user1.topArtists, user2.topArtists)
      trackOverlap  == calculateTrackOverlap(user1.topTracks, user2.topTracks)
      sharedArtists == SharedOf(user1.topArtists, user2.topArtists)
      audioFeaturesScore ==
        IF fetched /\ user1.topTracks # <<>> /\ user2.topTracks # <<>>
        THEN AudioSimilarityOf(AudioFeaturesResponse(Map(IdOf, user1.topTracks)),
                               AudioFeaturesResponse(Map(IdOf, user2.topTracks)))
        ELSE Num(0)
      score == FinalScore(artistOverlap, genreOverlap, trackOverlap, audioFeaturesScore,
                          WeightsFor(audioFeaturesScore))
  IN  [score |-> score,
       metrics |-> [artistOverlap |-> artistOverlap, genreOverlap |-> genreOverlap,
                    trackOverlap |-> trackOverlap,
                    audioFeaturesScore |-> audioFeaturesScore],
       sharedArtists |-> sharedArtists,
       messages |-> generateCompatibilityMessages(score, sharedArtists)]

\* the result r is one the request for the tokens can return on its own
AsAlone(r, tokens) ==
  \E fetched \in BOOLEAN :
    LET alone == ResultAlone(tokens.user1, tokens.user2, fetched)
    IN  /\ r.score = alone.score
        /\ r.metrics = alone.metrics
        /\ r.sharedArtists = alone.sharedArtists
        /\ r.messages = alone.messages

\* C19: of two requests for different user pairs served in one process, in
\* whatever order their steps are taken, each returns a result it can return
\* when it runs alone.
C19_NoInterference ==
  /\ Returned => AsAlone(result, asked)
  /\ other.outcome = "returned" => AsAlone(other.result, other.asked)

\* the second request returned its result, score 90, while the first, which
\* has scored 50 and created its playlist, waits for addTracksToPlaylist
C19_Witness ==
  /\ Returned
  /\ asked.user1.display_name = "cy"
  /\ result.score = Num(90)
  /\ result.playlistId # NoPlaylist
  /\ other.outcome = "pending"
  /\ Len(other.stack) = 1
  /\ other.stack[1].pc = "addTracks"
  /\ other.stack[1].finalScore = Num(50)

\* the account's top tracks have at least one usable audio feature vector
HasFeatures(account) ==
  Filter(NotNull, AudioFeaturesResponse(Map(IdOf, account.topTracks))) # <<>>

\* the call fetched usable vectors for both users and measured exactly 0
MeasuredZero(audioFetch, audioFeaturesScore) ==
  /\ audioFetch = "resolved"
  /\ HasFeatures(spotify1)
  /\ HasFeatures(spotify2)
  /\ audioFeaturesScore = Num(0)

\* one of two calls on the same accounts had no audio data (the fetch was
\* rejected) and the other measured a similarity of exactly 0
MissingAgainstZero ==
  /\ previous # NoPrevious
  /\ previous.outcome = "returned"
  /\ Returned
  /\ \/ /\ previous.audioFetch = "rejected"
        /\ MeasuredZero(stack[1].audioFetch, result.metrics.audioFeaturesScore)
     \/ /\ stack[1].audioFetch = "rejected"
        /\ MeasuredZero(previous.audioFetch, previous.result.metrics.audioFeaturesScore)

\* C21: for equal artist, genre and track overlaps, a call without audio data
\* and a call that measured an audio similarity of exactly 0 return the same
\* score and the same audioFeaturesScore.
C21_MissingLikeZero ==
  MissingAgainstZero
  => /\ result.metrics.artistOverlap = previous.result.metrics.artistOverlap
     /\ result.metrics.genreOverlap = previous.result.metrics.genreOverlap
     /\ result.metrics.trackOverlap = previous.result.metrics.trackOverlap
     /\ result.score = previous.result.score
     /\ result.metrics.audioFeaturesScore = previous.result.metrics.audioFeaturesScore

\* the first call's fetch was rejected, the second measured 0 between t1 and
\* t2; both score 70 for the one artist the users share
C21_Witness ==
  /\ MissingAgainstZero
  /\ previous.audioFetch = "rejected"
  /\ stack[1].audioFetch = "resolved"
  /\ Map(IdOf, spotify1.topTracks) = <<"t1">>
  /\ Map(IdOf, spotify2.topTracks) = <<"t2">>
  /\ previous.result.score = Num(70)
  /\ result.score = Num(70)
  /\ result.metrics.audioFeaturesScore = Num(0)

\* |A n B| / |A u B| of two finite sets
Jaccard(A, B) == Rat(Cardinality(A \cap B), Cardinality(A \cup B))

\* C22: when the union is not empty, artistOverlap, trackOverlap and
\* genreOverlap are the Jaccard ratio of the two sets of artist ids, of track
\* ids, and of the genres of all of each user's artists; being a function of
\* the sets, the value is the same for every order of and every repetition in
\* the lists.
C22_OverlapsAreJaccard ==
  Len(ret) = 1 =>
    LET list1 == arg[1].list1
        list2 == arg[1].list2
    IN  IF arg[1].kind = "artists"
        THEN /\ IdSet(list1) \cup IdSet(list2) # {}
                  => ret[1].artistOverlap = Jaccard(IdSet(list1), IdSet(list2))
             /\ GenreSet(list1) \cup GenreSet(list2) # {}
                  => ret[1].genreOverlap = Jaccard(GenreSet(list1), GenreSet(list2))
        ELSE IdSet(list1) \cup IdSet(list2) # {}
               => ret[1].trackOverlap = Jaccard(IdSet(list1), IdSet(list2))

\* user 1 lists Cy then Ada, user 2 lists Ada twice: one of two artist ids
\* and one of two genres are common
C22_Witness ==
  /\ Len(ret) = 1
  /\ arg[1].kind = "artists"
  /\ Map(IdOf, arg[1].list1) = <<"a3", "a1">>
  /\ Map(IdOf, arg[1].list2) = <<"a1", "a1">>
  /\ ret[1] = [artistOverlap |-> Rat(1, 2), genreOverlap |-> Rat(1, 2)]

\* the sum of dimension k over the first n vectors
RECURSIVE Total(_, _, _)
Total(features, k, n) ==
  IF n = 0 THEN Num(0) ELSE RAdd(Total(features, k, n - 1), features[n][k])

\* the mean of dimension k over the vectors
MeanOf(features, k) == RDiv(Total(features, k, Len(features)), Num(Len(features)))

\* |mean of k for user 1 - mean of k for user 2|
MeanDiff(features1, features2, k) ==
  MathAbs(RSub(MeanOf(features1, k), MeanOf(features2, k)))

\* max(0, 1 - mean of the six absolute differences), tempo divided by 200
ExpectedSimilarity(features1, features2) ==
  LET plain == {"danceability", "energy", "valence", "acousticness", "instrumentalness"}
      RECURSIVE SumOver(_)
      SumOver(S) == IF S = {} THEN Num(0)
                    ELSE LET k == CHOOSE x \in S : TRUE
                         IN  RAdd(MeanDiff(features1, features2, k), SumOver(S \ {k}))
      tempo == RDiv(MeanDiff(features1, features2, "tempo"), Num(200))
      similarity == RSub(Num(1), RDiv(RAdd(SumOver(plain), tempo), Num(6)))
  IN  IF RLeq(Num(0), similarity) THEN similarity ELSE Num(0)

\* C23: when both users have at least one usable feature vector,
\* audioFeaturesScore is max(0, 1 - mean of the six absolute differences) of
\* the two users' per-dimension means, the tempo difference divided by 200,
\* for every number of vectors from 1 up to the bound.
C23_AudioScoreFormula ==
  Len(ret) = 1 =>
    LET features1 == Filter(NotNull, arg[1].features1Res)
        features2 == Filter(NotNull, arg[1].features2Res)
    IN  features1 # <<>> /\ features2 # <<>>
          => ret[1].audioFeaturesScore = ExpectedSimilarity(features1, features2)

\* two vectors averaged to (1/2, ..., tempo 25) against one vector
\* (1, ..., tempo 250): 1 - (5 * 1/2 + 225/200) / 6 = 19/48
C23_Witness ==
  /\ Len(ret) = 1
  /\ arg[1].features1Res = <<FeatureVector(0, 0, 0), FeatureVector(1, 1, 50)>>
  /\ arg[1].features2Res = <<FeatureVector(1, 1, 250)>>
  /\ ret[1].avgFeatures1.tempo = Num(25)
  /\ ret[1].audioFeaturesScore = Rat(19, 48)

\* C24: when every Spotify call succeeds, a call of calculateCompatibility
\* eventually returns its CompatibilityResult.  The code calls itself again at
\* line 584 before it creates the playlist, and so does every nested call: no
\* call returns.
C24_Terminates == <>Returned

\* C25: one top-level call of calculateCompatibility creates at most one
\* playlist, whichever Spotify calls succeed or fail.  A nested call whose own
\* nested call ended creates a playlist too, and then its caller creates
\* another.
C25_AtMostOnePlaylist == Len(playlists) <= 1

\* C26 as claimed: for fixed overlaps the score is non-decreasing in
\* audioFeaturesScore over the whole of [0,1], the value 0 included.  At 0 the
\* weights are redistributed, and the score can be higher than for a small
\* positive similarity.
C26_MonotoneFromZero ==
  Len(ret) = 2 /\ RLeq(arg[1].audioFeaturesScore, arg[2].audioFeaturesScore)
    => RLeq(ret[1], ret[2])

\* C26 amended: for fixed overlaps the score is non-decreasing in
\* audioFeaturesScore over (0,1], where the default weights are in force.
C26_MonotoneAboveZero ==
  /\ Len(ret) = 2
  /\ ~StrictEq(arg[1].audioFeaturesScore, Num(0))
  /\ RLeq(arg[1].audioFeaturesScore, arg[2].audioFeaturesScore)
  => RLeq(ret[1], ret[2])

\* all artists and genres shared, no track: 65 at similarity 1/4, 75 at 3/4
C26_Witness ==
  /\ Len(ret) = 2
  /\ arg[1] = [artistOverlap |-> Num(1), genreOverlap |-> Num(1), trackOverlap |-> Num(0),
               audioFeaturesScore |-> Rat(1, 4)]
  /\ arg[2].audioFeaturesScore = Rat(3, 4)
  /\ ret = <<Num(65), Num(75)>>

\* C27: under every interleaving of two GET /api/user requests with different
\* users' tokens, each Spotify call made for a request uses that request's
\* own token, and the response holds only the data of the user whose cookie
\* was sent.  The requests share one client: a request that resumes after the
\* other set its token goes on with the other's token.
C27_OwnToken ==
  \A i \in DOMAIN handlers :
    /\ \A k \in DOMAIN handlers[i].used : handlers[i].used[k] = handlers[i].accessToken
    /\ \A k \in DOMAIN handlers[i].body :
         handlers[i].body[k] \in {UserOf(handlers[i].accessToken), "empty"}

\* the paths the claim calls public
ClaimedPublic(path, revision) ==
  \/ path = <<>>
  \/ StartsWithApiAuth(path)
  \/ revision = "part_004" /\ (path = <<"favicon.ico">> \/ StartsWithNext(path))

\* C28: for a matched request whose path is not public and that carries no
\* spotify_access_token cookie, the middleware (either revision) answers
\* with a redirect, never with NextResponse.next().
C28_NoTokenRedirects ==
  /\ session.last # NoVisit
  /\ ~ClaimedPublic(session.last.path, session.last.revision)
  /\ session.last.jar.spotify_access_token = NoToken
  => session.last.verdict.kind = "redirect"

\* /api/user asked for without any cookie: src/middleware.ts redirects to "/"
C28_Witness ==
  /\ session.last # NoVisit
  /\ session.last.path = <<"api", "user">>
  /\ session.last.revision = "middleware.ts"
  /\ session.last.jar = [spotify_access_token |-> NoToken, spotify_refresh_token |-> NoToken]
  /\ session.last.verdict = Redirect(<<>>)

\* C29: after a successful POST to the logout route no request obtains a new
\* spotify_access_token cookie or passes the middleware on a protected path
\* until the authorization callback completes again.  The logout leaves the
\* refresh-token cookie, and the refresh endpoint turns it into a new access
\* token.
C29_SessionEnded ==
  session.loggedOut
  => /\ cookies.spotify_access_token = NoToken
     /\ session.last # NoVisit
          => \/ ClaimedPublic(session.last.path, session.last.revision)
             \/ session.last.verdict.kind # "next"

\* C30: after any sequence of showToast and removeToast calls the visible
\* toasts have pairwise distinct ids, so closing one toast removes that toast
\* alone.  Two toasts shown within the same millisecond get the same id.
C30_DistinctIds ==
  \A i, j \in DOMAIN toasts : toasts[i].id = toasts[j].id => i = j

====
